---- MODULE Spec2Model ----
(***************************************************************************)
(* A model of the resource Builder and Result of cli-runtime               *)
(* (pkg/resource/builder.go, pkg/resource/result.go).                      *)
(*                                                                         *)
(* b  : the fields of one Builder                                          *)
(* r  : the fields of the Result the last Do() returned                    *)
(* t  : the traversal of r.visitor that is in progress, if any             *)
(* An error value is the sequence of the messages it aggregates; the nil   *)
(* error is the empty sequence.                                            *)
(***************************************************************************)
EXTENDS Naturals, Sequences, FiniteSets, TLC

VARIABLES
    b,          \* Builder (builder.go:58-139)
    r,          \* Result (kubectl_match_version.go:1691-1709)
    pc,         \* "config" | "result" | "panic"
    calls,      \* number of Builder calls made so far
    ops,        \* number of Result calls made so far
    t,          \* traversal in progress
    stdinPos,   \* number of documents already consumed from standard input
    ret,        \* what the last completed Result call returned
    hist,       \* observations of the run (ghost state)
    w,          \* warningWriter (kubectl_match_version.go:1569-1578) and its callers
    crt,        \* CommandHeaderRoundTripper (unnamed/part_000:43-46) and its callers
    ce,         \* cachingCategoryExpanderFunc (builder.go:1308-1313) and its callers
    pl,         \* HandlePluginCommand (kubectl_match_version.go:1024-1068) and its plugin handler
    mv          \* MatchVersionFlags (kubectl_match_version.go:48-54) and its callers

\* the Builder, its Result and their caller
builder == <<b, r, pc, calls, ops, t, stdinPos, ret, hist>>

\* the other components
aux == <<w, crt, ce, pl, mv>>

vars == <<b, r, pc, calls, ops, t, stdinPos, ret, hist, w, crt, ce, pl, mv>>

-----------------------------------------------------------------------------
(* Bounds of the model *)

MaxCalls == 4          \* Builder calls per run
MaxOps == 2            \* Result calls per run
MaxPaths == 3          \* sources a Builder accumulates
MaxConcurrency == 2    \* largest value given to VisitorConcurrency
MaxSetup == 3          \* Builder calls of a caller that goes on to use the Result

-----------------------------------------------------------------------------
(* Errors *)

NoErr == <<>>

StdinMultiUseError == "standard input cannot be used for multiple arguments"

missingResourceError == "You must provide one or more resources by argument or filename."

NewAggregate(errs) == errs

\* faulty variant: FilterOut that removes nothing
FilterOut_Nothing(err, ignore) == err

\* utilerrors.FilterOut: drop the messages the matchers accept
RECURSIVE FilterOut(_, _)
FilterOut(err, ignore) ==
    IF err = <<>> THEN <<>>
    ELSE IF Head(err) \in ignore THEN FilterOut(Tail(err), ignore)
         ELSE <<Head(err)>> \o FilterOut(Tail(err), ignore)

-----------------------------------------------------------------------------
(* The environment: the files on disk, standard input, the type catalog and *)
(* the objects on the server.                                               *)

Nil == "<nil>"

\* a decoded object; a list-typed object carries its members
\* src is the index of the source that yielded it, set when it is yielded
Doc(name, ns, rv, label) ==
    [name |-> name, ns |-> ns, res |-> "pods", namespaced |-> TRUE, rv |-> rv,
     label |-> label, hasObj |-> TRUE, isList |-> FALSE, members |-> <<>>, src |-> 0]

ListDoc(members, rv) ==
    [name |-> "", ns |-> "", res |-> "pods", namespaced |-> TRUE, rv |-> rv,
     label |-> "", hasObj |-> TRUE, isList |-> TRUE, members |-> members, src |-> 0]

\* os.Stat: what a path names
Stat(p) ==
    CASE p \in {"a.yaml", "b.yaml", "c.yaml", "bad.yaml", "list.yaml", "empty.yaml"} -> "file"
      [] p \in {"dir1", "dir2"} -> "dir"
      [] OTHER -> "missing"

\* filepath.Glob of a path that does not exist
Glob(pattern) ==
    CASE pattern = "*.yaml"  -> <<"a.yaml", "b.yaml">>
      [] pattern = "c*.yaml" -> <<"c.yaml">>
      [] OTHER               -> <<>>

\* the recognized files a directory holds (FileExtensions), in walk order
DirEntries(p) ==
    CASE p = "dir1" -> <<"a.yaml">>
      [] p = "dir2" -> <<"a.yaml", "c.yaml">>
      [] OTHER -> <<>>

\* what decoding a file yields: the objects, or a decode failure
FileContent(name) ==
    CASE name = "a.yaml"     -> [bad |-> FALSE, docs |-> <<Doc("a", "", "1", "x")>>]
      [] name = "b.yaml"     -> [bad |-> FALSE, docs |-> <<Doc("b", "ns-b", "2", "")>>]
      [] name = "c.yaml"     -> [bad |-> FALSE, docs |-> <<Doc("c", "ns-a", "1", "x")>>]
      [] name = "list.yaml"  -> [bad |-> FALSE,
                                 docs |-> <<ListDoc(<<Doc("m1", "", "1", "x"),
                                                      Doc("m2", "ns-a", "1", "")>>, "7")>>]
      [] name = "empty.yaml" -> [bad |-> FALSE, docs |-> <<ListDoc(<<>>, "7")>>]
      [] name = "http://u"   -> [bad |-> FALSE, docs |-> <<Doc("u", "", "1", "")>>]
      [] name = "kdir"       -> [bad |-> FALSE, docs |-> <<Doc("k", "", "1", "")>>]
      [] OTHER               -> [bad |-> TRUE, docs |-> <<>>]

StdinDocs == <<Doc("s", "", "3", "x")>>

DecodeError(name) == "error parsing " \o name

\* the type catalog: token -> mapping, or no match
Mapping(token) ==
    CASE token \in {"pods", "po", "Pod"} -> [resource |-> "pods", namespaced |-> TRUE]
      [] token = "nodes"                 -> [resource |-> "nodes", namespaced |-> FALSE]
      [] OTHER                           -> [resource |-> "", namespaced |-> FALSE]

\* the errors of a REST mapper: no match for the argument, and a failure of
\* discovery or transport
NoMatchError == "no matches for kind"

DiscoveryError == "unable to retrieve the complete list of server APIs"

IsNoMatchError(err) == err = NoMatchError

\* the token parses as a fully specified resource.version.group
FullySpecified(token) == token = "pods.v1.core"

\* restMapper.KindFor asked by resource, with the version the token gives
\* (versioned) or without version: [found, err]
KindFor(token, versioned) ==
    CASE token \in {"pods", "po", "nodes", "stale"} -> [found |-> TRUE, err |-> Nil]
      [] token = "pods.v1.core" /\ versioned       -> [found |-> TRUE, err |-> Nil]
      [] token \in {"flaky", "down"}               -> [found |-> FALSE, err |-> DiscoveryError]
      [] OTHER                                     -> [found |-> FALSE, err |-> NoMatchError]

\* restMapper.RESTMapping asked by kind: [mapping, err]
RESTMapping(token) ==
    CASE token \in {"pods", "po", "Pod", "nodes", "pods.v1.core"} ->
            [mapping |-> Mapping(IF token = "pods.v1.core" THEN "pods" ELSE token), err |-> Nil]
      [] token = "down" -> [mapping |-> Mapping(""), err |-> DiscoveryError]
      [] OTHER          -> [mapping |-> Mapping(""), err |-> NoMatchError]

\* the objects the server holds, in the order it lists them
ServerObjects ==
    <<[resource |-> "pods", ns |-> "ns-a", name |-> "p1", rv |-> "1", label |-> "x"],
      [resource |-> "pods", ns |-> "ns-a", name |-> "p2", rv |-> "2", label |-> ""],
      [resource |-> "nodes", ns |-> "", name |-> "n1", rv |-> "1", label |-> "x"]>>

-----------------------------------------------------------------------------
(* Builder: construction and the configuration methods.  Each method is an  *)
(* operator from the Builder value to the Builder value it leaves behind.   *)

\* a Visitor held in b.paths or in a Result's sources
Source(kind, name) ==
    [kind |-> kind, name |-> name, res |-> "", ns |-> "", namespaced |-> FALSE,
     sel |-> "", fsel |-> ""]

InfoSource(mapping, ns, name) ==
    [kind |-> "info", name |-> name, res |-> mapping.resource, ns |-> ns,
     namespaced |-> mapping.namespaced, sel |-> "", fsel |-> ""]

SelectorSource(mapping, ns, labelSelector, fieldSelector) ==
    [kind |-> "selector", name |-> "", res |-> mapping.resource, ns |-> ns,
     namespaced |-> mapping.namespaced, sel |-> labelSelector, fsel |-> fieldSelector]

\* restMapper: "ok" or "err" (the function fails)
\* categoryExpander: "ok", "err" (the function fails) or "nil" (no function)
newBuilder(restMapper, categoryExpander) ==
    [restMapperFn |-> restMapper, categoryExpanderFn |-> categoryExpander, mapper |-> "nil",
     objectTyper |-> "nil", negotiatedSerializer |-> "nil", errs |-> <<>>, paths |-> <<>>, stream |-> FALSE,
     stdinInUse |-> FALSE, dir |-> FALSE, visitorConcurrency |-> 0,
     labelSelector |-> Nil, fieldSelector |-> Nil, selectAll |-> FALSE,
     resources |-> <<>>, subresource |-> "", namespace |-> "",
     allNamespace |-> FALSE, names |-> <<>>, resourceTuples |-> <<>>,
     defaultNamespace |-> FALSE, requireNamespace |-> FALSE, flatten |-> FALSE,
     latest |-> FALSE, requireObject |-> TRUE, singleResourceType |-> FALSE,
     continueOnError |-> FALSE, singleItemImplied |-> FALSE]

AddError(bb, err) ==
    IF err = Nil THEN bb ELSE [bb EXCEPT !.errs = Append(@, err)]

VisitorConcurrency(bb, concurrency) ==
    [bb EXCEPT !.visitorConcurrency = concurrency]

Unstructured(bb) ==
    IF bb.mapper # "nil"
    THEN [bb EXCEPT !.errs = Append(@, "another mapper was already selected, cannot use unstructured types")]
    ELSE [bb EXCEPT !.objectTyper = "unstructured",
                    !.mapper = "unstructured"]

\* faulty variant: a WithScheme that selects again over an earlier selection
WithScheme_Reselecting(bb, decodingVersions) ==
    [bb EXCEPT !.objectTyper = "scheme",
               !.negotiatedSerializer =
                   IF Len(decodingVersions) > 0 THEN "without conversion" ELSE "codecs",
               !.mapper = "scheme"]

\* the serializer is the codec factory itself, or the one without conversion
\* when versions to decode were given
WithScheme(bb, decodingVersions) ==
    IF bb.mapper # "nil"
    THEN [bb EXCEPT !.errs = Append(@, "another mapper was already selected, cannot use internal types")]
    ELSE [bb EXCEPT !.objectTyper = "scheme",
                    !.negotiatedSerializer =
                        IF Len(decodingVersions) > 0 THEN "without conversion" ELSE "codecs",
                    !.mapper = "scheme"]

URL(bb, u) ==
    [bb EXCEPT !.paths = Append(@, Source("url", u))]

\* faulty variant: Stdin that does not look at stdinInUse
Stdin_NotCheckingUse(bb) ==
    [bb EXCEPT !.stream = TRUE,
               !.stdinInUse = TRUE,
               !.paths = Append(@, Source("stdin", "-"))]

Stdin(bb) ==
    [bb EXCEPT !.stream = TRUE,
               !.errs = IF bb.stdinInUse THEN Append(@, StdinMultiUseError) ELSE @,
               !.stdinInUse = TRUE,
               !.paths = Append(@, Source("stdin", "-"))]

StdinInUse(bb) ==
    [bb EXCEPT !.errs = IF bb.stdinInUse THEN Append(@, StdinMultiUseError) ELSE @,
               !.stdinInUse = TRUE]

\* ExpandPathsToFileVisitors: one FileVisitor per recognized file
RECURSIVE FileVisitors(_)
FileVisitors(names) ==
    IF names = <<>> THEN <<>>
    ELSE <<Source("file", Head(names))>> \o FileVisitors(Tail(names))

ExpandPathsToFileVisitors(p) ==
    IF Stat(p) = "dir" THEN FileVisitors(DirEntries(p)) ELSE FileVisitors(<<p>>)

\* the loop of Path over its paths
RECURSIVE PathLoop(_, _)
PathLoop(bb, paths) ==
    IF paths = <<>> THEN bb
    ELSE LET p == Head(paths)
             visitors == ExpandPathsToFileVisitors(p)
             next == IF Stat(p) = "missing"
                     THEN [bb EXCEPT !.errs = Append(@, "the path does not exist")]
                     ELSE [bb EXCEPT !.dir = IF Len(visitors) > 1 THEN TRUE ELSE @,
                                     !.paths = @ \o visitors]
         IN  PathLoop(next, Tail(paths))

Path(bb, recursive, paths) ==
    LET after == PathLoop(bb, paths)
    IN  IF Len(after.paths) = 0 /\ Len(after.errs) = 0
        THEN [after EXCEPT !.errs = Append(@, "error reading: recognized file extensions")]
        ELSE after

RequireNamespace(bb) == [bb EXCEPT !.requireNamespace = TRUE]

\* FilenameOptions.validate
validate(o) ==
    (IF Len(o.Filenames) > 0 /\ o.Kustomize # ""
     THEN <<"only one of -f or -k can be specified">> ELSE <<>>)
    \o (IF o.Kustomize # "" /\ o.Recursive
        THEN <<"the -k flag can't be used with -f or -R">> ELSE <<>>)

IsURL(s) == s \in {"http://u"}

\* expandIfFilePattern: the matches, or none (an error)
expandIfFilePattern(pattern) ==
    IF Stat(pattern) = "missing" THEN Glob(pattern) ELSE <<pattern>>

\* the loop of FilenameParam over filenameOptions.Filenames
RECURSIVE FilenameLoop(_, _, _)
FilenameLoop(bb, recursive, paths) ==
    IF paths = <<>> THEN bb
    ELSE LET s == Head(paths)
             matches == expandIfFilePattern(s)
             next ==
                 CASE s = "-" -> Stdin(bb)
                   [] s # "-" /\ IsURL(s) -> URL(bb, s)
                   [] OTHER ->
                        IF matches = <<>>
                        THEN [bb EXCEPT !.errs = Append(@, "the path does not exist")]
                        ELSE Path([bb EXCEPT !.singleItemImplied =
                                       IF ~recursive /\ Len(matches) = 1 THEN TRUE ELSE @],
                                  recursive, matches)
         IN  FilenameLoop(next, recursive, Tail(paths))

FilenameParam(bb, enforceNamespace, o) ==
    IF validate(o) # <<>>
    THEN [bb EXCEPT !.errs = @ \o validate(o)]
    ELSE LET looped == FilenameLoop(bb, o.Recursive, o.Filenames)
             kust == IF o.Kustomize # ""
                     THEN [looped EXCEPT !.paths = Append(@, Source("kustomize", o.Kustomize))]
                     ELSE looped
         IN  IF enforceNamespace THEN RequireNamespace(kust) ELSE kust

-----------------------------------------------------------------------------
(* Arguments are sequences of atoms, the separators "/" and "," being atoms  *)
(* of their own, so that splitting an argument is computed, not assumed.     *)

RECURSIVE Str(_)
Str(arg) == IF arg = <<>> THEN "" ELSE Head(arg) \o Str(Tail(arg))

Contains(arg, sep) == \E i \in 1..Len(arg) : arg[i] = sep

\* strings.Split
RECURSIVE Split(_, _)
Split(arg, sep) ==
    IF ~Contains(arg, sep) THEN <<arg>>
    ELSE LET i == CHOOSE k \in 1..Len(arg) :
                      arg[k] = sep /\ \A j \in 1..(k-1) : arg[j] # sep
         IN  <<SubSeq(arg, 1, i-1)>> \o Split(SubSeq(arg, i+1, Len(arg)), sep)

\* strings.Join
RECURSIVE Join(_, _)
Join(parts, sep) ==
    IF parts = <<>> THEN <<>>
    ELSE IF Len(parts) = 1 THEN Head(parts)
    ELSE Head(parts) \o <<sep>> \o Join(Tail(parts), sep)

InSeq(x, seq) == \E i \in 1..Len(seq) : seq[i] = x

RECURSIVE Unique(_, _)
Unique(parts, seen) ==
    IF parts = <<>> THEN <<>>
    ELSE IF Head(parts) \in seen THEN Unique(Tail(parts), seen)
    ELSE <<Head(parts)>> \o Unique(Tail(parts), seen \cup {Head(parts)})

\* SplitResourceArgument: split at commas, unique, in the original order
SplitResourceArgument(arg) == Unique(Split(arg, ","), {})

RECURSIVE StrAll(_)
StrAll(parts) == IF parts = <<>> THEN <<>> ELSE <<Str(Head(parts))>> \o StrAll(Tail(parts))

\* faulty variant: splitResourceTypeName that takes the first two segments of
\* an argument with more than one slash
splitResourceTypeName_AnySlashes(arg) ==
    LET seg == Split(arg, "/")
        none == [Resource |-> "", Name |-> ""]
    IN  IF ~Contains(arg, "/") THEN [tuple |-> none, ok |-> FALSE, err |-> Nil]
        ELSE IF Len(seg[1]) = 0 \/ Len(seg[2]) = 0 \/ Len(SplitResourceArgument(seg[1])) # 1
        THEN [tuple |-> none, ok |-> FALSE,
              err |-> "arguments in resource/name form must have a single resource and name"]
        ELSE [tuple |-> [Resource |-> Str(seg[1]), Name |-> Str(seg[2])],
              ok |-> TRUE, err |-> Nil]

\* splitResourceTypeName: [tuple, ok, err]
splitResourceTypeName(arg) ==
    LET seg == Split(arg, "/")
        none == [Resource |-> "", Name |-> ""]
    IN  IF ~Contains(arg, "/") THEN [tuple |-> none, ok |-> FALSE, err |-> Nil]
        ELSE IF Len(seg) # 2
        THEN [tuple |-> none, ok |-> FALSE,
              err |-> "arguments in resource/name form may not have more than one slash"]
        ELSE IF Len(seg[1]) = 0 \/ Len(seg[2]) = 0 \/ Len(SplitResourceArgument(seg[1])) # 1
        THEN [tuple |-> none, ok |-> FALSE,
              err |-> "arguments in resource/name form must have a single resource and name"]
        ELSE [tuple |-> [Resource |-> Str(seg[1]), Name |-> Str(seg[2])],
              ok |-> TRUE, err |-> Nil]

\* the pairs resource/name of normalizeMultipleResourcesArgs, resources outermost
RECURSIVE CrossArgs(_, _)
CrossArgs(resources, names) ==
    LET RECURSIVE One(_, _)
        One(res, ns) == IF ns = <<>> THEN <<>>
                        ELSE <<res \o <<"/">> \o Head(ns)>> \o One(res, Tail(ns))
    IN  IF resources = <<>> THEN <<>>
        ELSE One(Head(resources), names) \o CrossArgs(Tail(resources), names)

normalizeMultipleResourcesArgs(args) ==
    IF Len(args) >= 2 /\ Len(SplitResourceArgument(args[1])) > 1
    THEN CrossArgs(SplitResourceArgument(args[1]), Tail(args))
    ELSE args

\* hasCombinedTypeArgs: [ok, err]
hasCombinedTypeArgs(args) ==
    LET hasSlash == Cardinality({i \in 1..Len(args) : Contains(args[i], "/")})
    IN  CASE hasSlash > 0 /\ hasSlash = Len(args) -> [ok |-> TRUE, err |-> Nil]
          [] hasSlash > 0 /\ hasSlash # Len(args) ->
                [ok |-> TRUE, err |-> "there is no need to specify a resource type as a separate argument"]
          [] OTHER -> [ok |-> FALSE, err |-> Nil]

\* restmapper.CategoryExpander.Expand
Expand(arg) ==
    IF arg = <<"all">> THEN [ok |-> TRUE, resources |-> <<<<"pods">>, <<"nodes">>>>]
    ELSE [ok |-> FALSE, resources |-> <<>>]

-----------------------------------------------------------------------------
(* Builder: the methods that take resource arguments and selectors *)

ResourceTypes(bb, types) == [bb EXCEPT !.resources = @ \o types]

\* the loop of ResourceNames; an error of splitResourceTypeName ends it
RECURSIVE ResourceNames(_, _, _)
ResourceNames(bb, resource, names) ==
    IF names = <<>> THEN bb
    ELSE LET sp == splitResourceTypeName(Head(names))
         IN  IF sp.err # Nil THEN [bb EXCEPT !.errs = Append(@, sp.err)]
             ELSE IF sp.ok
             THEN ResourceNames([bb EXCEPT !.resourceTuples = Append(@, sp.tuple)],
                                resource, Tail(names))
             ELSE IF Len(resource) = 0
             THEN ResourceNames([bb EXCEPT !.errs = Append(@, "the argument must be RESOURCE/NAME")],
                                resource, Tail(names))
             ELSE ResourceNames([bb EXCEPT !.resourceTuples =
                                     Append(@, [Resource |-> Str(resource), Name |-> Str(Head(names))])],
                                resource, Tail(names))

LabelSelector(bb, selector) ==
    IF selector = "" THEN bb ELSE [bb EXCEPT !.labelSelector = selector]

LabelSelectorParam(bb, sel) ==
    IF sel = "" THEN bb
    ELSE IF bb.selectAll
    THEN [bb EXCEPT !.errs = Append(@, "found non-empty label selector with previously set 'all' parameter")]
    ELSE LabelSelector(bb, sel)

FieldSelectorParam(bb, sel) ==
    IF sel = "" THEN bb
    ELSE IF bb.selectAll
    THEN [bb EXCEPT !.errs = Append(@, "found non-empty field selector with previously set 'all' parameter")]
    ELSE [bb EXCEPT !.fieldSelector = sel]

NamespaceParam(bb, namespace) == [bb EXCEPT !.namespace = namespace]

DefaultNamespace(bb) == [bb EXCEPT !.defaultNamespace = TRUE]

\* metav1.NamespaceAll
NamespaceAll == ""

\* faulty variant: AllNamespaces that records the request and leaves the
\* namespace as it is
AllNamespaces_KeepingNamespace(bb, allNamespace) == [bb EXCEPT !.allNamespace = allNamespace]

AllNamespaces(bb, allNamespace) ==
    [bb EXCEPT !.namespace = IF allNamespace THEN NamespaceAll ELSE @,
               !.allNamespace = allNamespace]

Subresource(bb, subresource) == [bb EXCEPT !.subresource = subresource]

\* faulty variant: SelectAllParam that does not look at the selectors
SelectAllParam_Unchecked(bb, selectAll) == [bb EXCEPT !.selectAll = selectAll]

SelectAllParam(bb, selectAll) ==
    IF selectAll /\ (bb.labelSelector # Nil \/ bb.fieldSelector # Nil)
    THEN [bb EXCEPT !.errs = Append(@, "setting 'all' parameter but found a non empty selector")]
    ELSE [bb EXCEPT !.selectAll = selectAll]

\* the loop of ReplaceAliases over the comma-separated tokens: [b, replaced]
RECURSIVE ReplaceLoop(_, _, _)
ReplaceLoop(bb, tokens, replaced) ==
    IF tokens = <<>> THEN [b |-> bb, replaced |-> replaced]
    ELSE LET arg == Head(tokens)
             ex == Expand(arg)
         IN  CASE bb.categoryExpanderFn = "nil" -> ReplaceLoop(bb, Tail(tokens), replaced)
               [] bb.categoryExpanderFn = "err" ->
                    ReplaceLoop(AddError(bb, "category expander failed"), Tail(tokens), replaced)
               [] OTHER ->
                    ReplaceLoop(bb, Tail(tokens),
                                Append(replaced, IF ex.ok THEN Join(ex.resources, ",") ELSE arg))

\* ReplaceAliases: [b, out]
ReplaceAliases(bb, input) ==
    LET res == ReplaceLoop(bb, Split(input, ","), <<>>)
    IN  [b |-> res.b, out |-> Join(res.replaced, ",")]

\* the loop of ResourceTypeOrNameArgs over combined type/name arguments
RECURSIVE CombinedLoop(_, _)
CombinedLoop(bb, args) ==
    IF args = <<>> THEN bb
    ELSE LET sp == splitResourceTypeName(Head(args))
         IN  IF sp.err # Nil THEN [bb EXCEPT !.errs = Append(@, sp.err)]
             ELSE IF sp.ok
             THEN CombinedLoop([bb EXCEPT !.resourceTuples = Append(@, sp.tuple)], Tail(args))
             ELSE CombinedLoop(bb, Tail(args))

ResourceTypeOrNameArgs(bb, allowEmptySelector, rawArgs) ==
    LET args == normalizeMultipleResourcesArgs(rawArgs)
        combined == hasCombinedTypeArgs(args)
        ra == ReplaceAliases(bb, args[1])
        types == StrAll(SplitResourceArgument(ra.out))
    IN  IF combined.ok
        THEN IF combined.err # Nil THEN [bb EXCEPT !.errs = Append(@, combined.err)]
             ELSE CombinedLoop(bb, args)
        ELSE CASE Len(args) >= 2 ->
                    ResourceTypes([ra.b EXCEPT !.names = @ \o StrAll(Tail(args))], types)
               [] Len(args) = 1 ->
                    LET typed == ResourceTypes(ra.b, types)
                    IN  IF typed.labelSelector = Nil /\ allowEmptySelector
                        THEN [typed EXCEPT !.labelSelector = ""]
                        ELSE typed
               [] OTHER -> bb

Flatten(bb) == [bb EXCEPT !.flatten = TRUE]

Latest(bb) == [bb EXCEPT !.latest = TRUE]

RequireObject(bb, require) == [bb EXCEPT !.requireObject = require]

ContinueOnError(bb) == [bb EXCEPT !.continueOnError = TRUE]

SingleResourceType(bb) == [bb EXCEPT !.singleResourceType = TRUE]

-----------------------------------------------------------------------------
(* Visitors are compositions: a root list over its children, wrapped by     *)
(* layers, innermost first.                                                  *)

Layer(kind, hooks, arg) == [kind |-> kind, hooks |-> hooks, arg |-> arg]

Hook(fn, ns) == [fn |-> fn, ns |-> ns]

NewFlattenListVisitor(v) == [v EXCEPT !.layers = Append(@, Layer("flatten", <<>>, ""))]

NewDecoratedVisitor(v, hooks) == [v EXCEPT !.layers = Append(@, Layer("decorated", hooks, ""))]

NewFilteredVisitor(v, selector) == [v EXCEPT !.layers = Append(@, Layer("filtered", <<>>, selector))]

ContinueOnErrorVisitor(v) == [v EXCEPT !.layers = Append(@, Layer("continueOnError", <<>>, ""))]

NoVisitor == [root |-> "none", children |-> <<>>, concurrency |-> 0, layers |-> <<>>]

EagerVisitorList(visitors) ==
    [root |-> "eager", children |-> visitors, concurrency |-> 0, layers |-> <<>>]

VisitorList(visitors) ==
    [root |-> "list", children |-> visitors, concurrency |-> 0, layers |-> <<>>]

ConcurrentVisitorList(visitors, concurrency) ==
    [root |-> "concurrent", children |-> visitors, concurrency |-> concurrency, layers |-> <<>>]

NoInfo == [nil |-> TRUE, items |-> <<>>]

\* a Result as a branch of visitorResult first builds it; branch records the
\* branch that built it, lookups the tokens handed to mappingFor while it was
\* built, in order, and clients the number of getClient calls made
NewResult(branch, singleItemImplied, targetsSingleItems) ==
    [err |-> NoErr, visitor |-> NoVisitor, sources |-> <<>>,
     singleItemImplied |-> singleItemImplied, targetsSingleItems |-> targetsSingleItems,
     mapper |-> "nil", ignoreErrors |-> {}, info |-> NoInfo, branch |-> branch,
     lookups |-> <<>>, clients |-> 0]

withError(res, err) == [res EXCEPT !.err = <<err>>]

-----------------------------------------------------------------------------
(* Type resolution *)

\* mappingFor: [mapping, err]
mappingFor(bb, token) ==
    IF bb.restMapperFn = "err" THEN [mapping |-> Mapping(""), err |-> DiscoveryError]
    ELSE IF (FullySpecified(token) /\ KindFor(token, TRUE).found) \/ KindFor(token, FALSE).found
    THEN RESTMapping(token)
    ELSE IF RESTMapping(token).err = Nil THEN RESTMapping(token)
    ELSE IF IsNoMatchError(RESTMapping(token).err)
    THEN [mapping |-> Mapping(""), err |-> "the server doesn't have a resource type"]
    ELSE RESTMapping(token)

\* a loop's outcome, the token it has just handed to mappingFor recorded first
Looked(token, rest) == [rest EXCEPT !.looked = <<token>> \o @]

\* the loop of resourceMappings: [mappings, err, looked]
RECURSIVE MappingsLoop(_, _, _, _)
\* one turn of the loop, m being what mappingFor returned for the resource
MappingsTurn(bb, resources, seen, mappings, m) ==
    IF m.err # Nil THEN [mappings |-> <<>>, err |-> m.err, looked |-> <<>>]
    ELSE IF m.mapping.resource \in seen
    THEN MappingsLoop(bb, Tail(resources), seen, mappings)
    ELSE MappingsLoop(bb, Tail(resources), seen \cup {m.mapping.resource},
                      Append(mappings, m.mapping))

MappingsLoop(bb, resources, seen, mappings) ==
    IF resources = <<>> THEN [mappings |-> mappings, err |-> Nil, looked |-> <<>>]
    ELSE Looked(Head(resources),
                MappingsTurn(bb, resources, seen, mappings, mappingFor(bb, Head(resources))))

resourceMappings(bb) ==
    IF Len(bb.resources) > 1 /\ bb.singleResourceType
    THEN [mappings |-> <<>>, err |-> "you may only specify a single resource type",
          looked |-> <<>>]
    ELSE MappingsLoop(bb, bb.resources, {}, <<>>)

\* the loop of resourceTupleMappings; done: the tokens that have a mapping,
\* canonical: the resources they map to; [err, looked, canonical]
RECURSIVE TupleMappingsLoop(_, _, _, _)
\* one turn of the loop, m being what mappingFor returned for the tuple's resource
TupleMappingsTurn(bb, tuples, done, canonical, m) ==
    IF m.err # Nil THEN [err |-> m.err, looked |-> <<>>, canonical |-> canonical]
    ELSE TupleMappingsLoop(bb, Tail(tuples), done \cup {Head(tuples).Resource},
                           canonical \cup {m.mapping.resource})

TupleMappingsLoop(bb, tuples, done, canonical) ==
    IF tuples = <<>>
    THEN [err |-> IF Cardinality(canonical) > 1 /\ bb.singleResourceType
                  THEN "you may only specify a single resource type" ELSE Nil,
          looked |-> <<>>, canonical |-> canonical]
    ELSE IF Head(tuples).Resource \in done
    THEN TupleMappingsLoop(bb, Tail(tuples), done, canonical)
    ELSE Looked(Head(tuples).Resource,
                TupleMappingsTurn(bb, tuples, done, canonical,
                                  mappingFor(bb, Head(tuples).Resource)))

\* faulty variant: resourceTupleMappings that accepts any number of types
resourceTupleMappings_AnyTypes(bb) ==
    [TupleMappingsLoop(bb, bb.resourceTuples, {}, {})
        EXCEPT !.err = IF @ = "you may only specify a single resource type" THEN Nil ELSE @]

resourceTupleMappings(bb) == TupleMappingsLoop(bb, bb.resourceTuples, {}, {})

-----------------------------------------------------------------------------
(* The resolution branches of visitorResult *)

\* labels.Parse accepts the selector
ValidSelector(sel) == sel \in {"", "app=x"}

RECURSIVE Selectors(_, _, _, _)
Selectors(bb, mappings, labelSelector, fieldSelector) ==
    IF mappings = <<>> THEN <<>>
    ELSE LET mapping == Head(mappings)
             selectorNamespace == IF ~mapping.namespaced THEN "" ELSE bb.namespace
         IN  <<SelectorSource(mapping, selectorNamespace, labelSelector, fieldSelector)>>
             \o Selectors(bb, Tail(mappings), labelSelector, fieldSelector)

\* visitBySelector once its arguments are accepted, rm being what
\* resourceMappings returned
SelectorsFor(bb, result, rm) ==
    IF rm.err # Nil THEN [withError(result, rm.err) EXCEPT !.lookups = rm.looked]
    ELSE [result EXCEPT
            !.visitor =
                IF bb.continueOnError
                THEN EagerVisitorList(Selectors(bb, rm.mappings,
                         IF bb.labelSelector # Nil THEN bb.labelSelector ELSE "",
                         IF bb.fieldSelector # Nil THEN bb.fieldSelector ELSE ""))
                ELSE VisitorList(Selectors(bb, rm.mappings,
                         IF bb.labelSelector # Nil THEN bb.labelSelector ELSE "",
                         IF bb.fieldSelector # Nil THEN bb.fieldSelector ELSE "")),
            !.sources = Selectors(bb, rm.mappings,
                            IF bb.labelSelector # Nil THEN bb.labelSelector ELSE "",
                            IF bb.fieldSelector # Nil THEN bb.fieldSelector ELSE ""),
            !.lookups = rm.looked,
            !.clients = Len(rm.mappings)]

\* faulty variant: visitBySelector that accepts names and type/name pairs
visitBySelector_AnyArguments(bb) ==
    CASE Len(bb.resources) = 0 ->
            withError(NewResult("selector", FALSE, FALSE),
                      "at least one resource must be specified to use a selector")
      [] Len(bb.resources) # 0 /\ bb.subresource # "" ->
            withError(NewResult("selector", FALSE, FALSE),
                      "subresource cannot be used when bulk resources are specified")
      [] OTHER -> SelectorsFor(bb, NewResult("selector", FALSE, FALSE), resourceMappings(bb))

\* faulty variant: visitBySelector that does not require a resource type
visitBySelector_AnyTypes(bb) ==
    CASE Len(bb.names) # 0 ->
            withError(NewResult("selector", FALSE, FALSE),
                      "name cannot be provided when a selector is specified")
      [] Len(bb.names) = 0 /\ Len(bb.resourceTuples) # 0 ->
            withError(NewResult("selector", FALSE, FALSE),
                      "selectors and the all flag cannot be used when passing resource/name arguments")
      [] Len(bb.names) = 0 /\ Len(bb.resourceTuples) = 0 /\ Len(bb.resources) # 0
           /\ bb.subresource # "" ->
            withError(NewResult("selector", FALSE, FALSE),
                      "subresource cannot be used when bulk resources are specified")
      [] OTHER -> SelectorsFor(bb, NewResult("selector", FALSE, FALSE), resourceMappings(bb))

visitBySelector(bb) ==
    CASE Len(bb.names) # 0 ->
            withError(NewResult("selector", FALSE, FALSE),
                      "name cannot be provided when a selector is specified")
      [] Len(bb.names) = 0 /\ Len(bb.resourceTuples) # 0 ->
            withError(NewResult("selector", FALSE, FALSE),
                      "selectors and the all flag cannot be used when passing resource/name arguments")
      [] Len(bb.names) = 0 /\ Len(bb.resourceTuples) = 0 /\ Len(bb.resources) = 0 ->
            withError(NewResult("selector", FALSE, FALSE),
                      "at least one resource must be specified to use a selector")
      [] Len(bb.names) = 0 /\ Len(bb.resourceTuples) = 0 /\ Len(bb.resources) # 0
           /\ bb.subresource # "" ->
            withError(NewResult("selector", FALSE, FALSE),
                      "subresource cannot be used when bulk resources are specified")
      [] OTHER -> SelectorsFor(bb, NewResult("selector", FALSE, FALSE), resourceMappings(bb))

\* the loop of visitByResource over the tuples: [items, err]
RECURSIVE TupleInfos(_, _, _)
TupleInfos(bb, tuples, items) ==
    IF tuples = <<>> THEN [items |-> items, err |-> Nil]
    ELSE LET tuple == Head(tuples)
             mapping == mappingFor(bb, tuple.Resource).mapping
             selectorNamespace == IF ~mapping.namespaced THEN "" ELSE bb.namespace
         IN  IF mapping.namespaced /\ bb.namespace = ""
             THEN [items |-> items,
                   err |-> IF bb.allNamespace
                           THEN "a resource cannot be retrieved by name across all namespaces"
                           ELSE "namespace may not be empty when retrieving a resource by name"]
             ELSE TupleInfos(bb, Tail(tuples),
                             Append(items, InfoSource(mapping, selectorNamespace, tuple.Name)))

\* faulty variant: InfosFor that builds the plain list even when
\* ContinueOnError was requested
InfosFor_NeverEager(bb, result, tm, ti) ==
    IF tm.err # Nil THEN [withError(result, tm.err) EXCEPT !.lookups = tm.looked]
    ELSE IF ti.err # Nil
    THEN [withError(result, ti.err) EXCEPT !.lookups = tm.looked,
                                           !.clients = Cardinality(tm.canonical)]
    ELSE [result EXCEPT
            !.visitor = VisitorList(ti.items),
            !.sources = ti.items,
            !.lookups = tm.looked,
            !.clients = Cardinality(tm.canonical)]

\* visitByResource once its arguments are accepted, tm being what
\* resourceTupleMappings returned and ti what the loop over the tuples gave
InfosFor(bb, result, tm, ti) ==
    IF tm.err # Nil THEN [withError(result, tm.err) EXCEPT !.lookups = tm.looked]
    ELSE IF ti.err # Nil
    THEN [withError(result, ti.err) EXCEPT !.lookups = tm.looked,
                                           !.clients = Cardinality(tm.canonical)]
    ELSE [result EXCEPT
            !.visitor = IF bb.continueOnError THEN EagerVisitorList(ti.items)
                        ELSE VisitorList(ti.items),
            !.sources = ti.items,
            !.lookups = tm.looked,
            !.clients = Cardinality(tm.canonical)]

visitByResource(bb) ==
    IF Len(bb.resources) # 0
    THEN withError(NewResult("resource",
                             IF ~bb.singleItemImplied THEN Len(bb.resourceTuples) = 1 ELSE TRUE,
                             TRUE),
                   "you may not specify individual resources and bulk resources in the same call")
    ELSE InfosFor(bb,
                  NewResult("resource",
                            IF ~bb.singleItemImplied THEN Len(bb.resourceTuples) = 1 ELSE TRUE,
                            TRUE),
                  resourceTupleMappings(bb),
                  TupleInfos(bb, bb.resourceTuples, <<>>))

RECURSIVE NameInfos(_, _, _)
NameInfos(mapping, ns, names) ==
    IF names = <<>> THEN <<>>
    ELSE <<InfoSource(mapping, ns, Head(names))>> \o NameInfos(mapping, ns, Tail(names))

\* faulty variant: NamesFor that gives a cluster-scoped Info the configured
\* namespace
NamesFor_KeepingNamespace(bb, result, rm) ==
    IF rm.err # Nil THEN [withError(result, rm.err) EXCEPT !.lookups = rm.looked]
    ELSE IF rm.mappings[1].namespaced /\ bb.namespace = ""
    THEN [withError(result,
            IF bb.allNamespace
            THEN "a resource cannot be retrieved by name across all namespaces"
            ELSE "namespace may not be empty when retrieving a resource by name")
          EXCEPT !.lookups = rm.looked, !.clients = 1]
    ELSE [result EXCEPT
            !.visitor = VisitorList(NameInfos(rm.mappings[1], bb.namespace, bb.names)),
            !.sources = NameInfos(rm.mappings[1], bb.namespace, bb.names),
            !.lookups = rm.looked,
            !.clients = 1]

\* visitByName once its arguments are accepted, rm being what
\* resourceMappings returned
NamesFor(bb, result, rm) ==
    IF rm.err # Nil THEN [withError(result, rm.err) EXCEPT !.lookups = rm.looked]
    ELSE IF rm.mappings[1].namespaced /\ bb.namespace = ""
    THEN [withError(result,
            IF bb.allNamespace
            THEN "a resource cannot be retrieved by name across all namespaces"
            ELSE "namespace may not be empty when retrieving a resource by name")
          EXCEPT !.lookups = rm.looked, !.clients = 1]
    ELSE [result EXCEPT
            !.visitor = VisitorList(NameInfos(rm.mappings[1],
                            IF ~rm.mappings[1].namespaced THEN "" ELSE bb.namespace,
                            bb.names)),
            !.sources = NameInfos(rm.mappings[1],
                            IF ~rm.mappings[1].namespaced THEN "" ELSE bb.namespace,
                            bb.names),
            !.lookups = rm.looked,
            !.clients = 1]

visitByName(bb) ==
    CASE Len(bb.paths) # 0 ->
            withError(NewResult("name", Len(bb.names) = 1, TRUE),
                      "when paths, URLs, or stdin is provided as input, you may not specify a resource by arguments as well")
      [] Len(bb.paths) = 0 /\ Len(bb.resources) = 0 ->
            withError(NewResult("name", Len(bb.names) = 1, TRUE),
                      "you must provide a resource and a resource name together")
      [] Len(bb.paths) = 0 /\ Len(bb.resources) > 1 ->
            withError(NewResult("name", Len(bb.names) = 1, TRUE),
                      "you must specify only one resource")
      [] OTHER -> NamesFor(bb, NewResult("name", Len(bb.names) = 1, TRUE), resourceMappings(bb))

\* faulty variant: visitByPaths that builds the concurrent list even when
\* ContinueOnError was requested
visitByPaths_NeverEager(bb) ==
    LET result == NewResult("paths", ~bb.dir /\ ~bb.stream /\ Len(bb.paths) = 1, TRUE)
        root == ConcurrentVisitorList(bb.paths, bb.visitorConcurrency)
        flat == IF bb.flatten THEN NewFlattenListVisitor(root) ELSE root
        nsd == IF bb.latest /\ bb.defaultNamespace
               THEN NewDecoratedVisitor(flat, <<Hook("SetNamespace", bb.namespace)>>)
               ELSE flat
        lat == IF bb.latest
               THEN NewDecoratedVisitor(nsd, <<Hook("RetrieveLatest", "")>>)
               ELSE nsd
        visitors == IF bb.labelSelector # Nil
                    THEN NewFilteredVisitor(lat, bb.labelSelector) ELSE lat
    IN  IF Len(bb.resources) # 0 \/ Len(bb.names) # 0 \/ Len(bb.resourceTuples) # 0
        THEN withError(result, "when paths, URLs, or stdin is provided as input, you may not specify resource arguments as well")
        ELSE IF bb.labelSelector # Nil /\ ~ValidSelector(bb.labelSelector)
        THEN withError(result, "the provided selector is not valid")
        ELSE [result EXCEPT !.visitor = visitors, !.sources = bb.paths]

visitByPaths(bb) ==
    LET result == NewResult("paths", ~bb.dir /\ ~bb.stream /\ Len(bb.paths) = 1, TRUE)
        root == IF bb.continueOnError THEN EagerVisitorList(bb.paths)
                ELSE ConcurrentVisitorList(bb.paths, bb.visitorConcurrency)
        flat == IF bb.flatten THEN NewFlattenListVisitor(root) ELSE root
        nsd == IF bb.latest /\ bb.defaultNamespace
               THEN NewDecoratedVisitor(flat, <<Hook("SetNamespace", bb.namespace)>>)
               ELSE flat
        lat == IF bb.latest
               THEN NewDecoratedVisitor(nsd, <<Hook("RetrieveLatest", "")>>)
               ELSE nsd
        visitors == IF bb.labelSelector # Nil
                    THEN NewFilteredVisitor(lat, bb.labelSelector) ELSE lat
    IN  CASE Len(bb.resources) # 0 ->
                withError(result, "when paths, URLs, or stdin is provided as input, you may not specify resource arguments as well")
          [] Len(bb.resources) = 0 /\ Len(bb.names) # 0 ->
                withError(result, "name cannot be provided when a path is specified")
          [] Len(bb.resources) = 0 /\ Len(bb.names) = 0 /\ Len(bb.resourceTuples) # 0 ->
                withError(result, "resource/name arguments cannot be provided when a path is specified")
          [] OTHER ->
                IF bb.labelSelector # Nil /\ ~ValidSelector(bb.labelSelector)
                THEN withError(result, "the provided selector is not valid")
                ELSE [result EXCEPT !.visitor = visitors, !.sources = bb.paths]

\* faulty variant: TypesOnly that does not resolve the types
TypesOnly_Unresolved(bb, resources) ==
    [err |-> "resource(s) were provided, but no name was specified", looked |-> <<>>]

\* the loop of visitorResult when only bulk types are configured: [err, looked]
RECURSIVE TypesOnly(_, _)
TypesOnly(bb, resources) ==
    IF resources = <<>>
    THEN [err |-> "resource(s) were provided, but no name was specified", looked |-> <<>>]
    ELSE Looked(Head(resources),
             IF mappingFor(bb, Head(resources)).err # Nil
             THEN [err |-> mappingFor(bb, Head(resources)).err, looked |-> <<>>]
             ELSE TypesOnly(bb, Tail(resources)))

\* the Result of visitorResult when only bulk types are configured
TypesResult(res) ==
    [withError(NewResult("types", FALSE, FALSE), res.err) EXCEPT !.lookups = res.looked]

\* faulty variant: visitorResult that resolves without looking at b.errs
visitorResult_IgnoringErrs(bb) ==
    LET sb == IF bb.selectAll THEN [bb EXCEPT !.labelSelector = ""] ELSE bb
    IN  [b |-> sb,
         r |-> CASE Len(sb.paths) # 0 -> visitByPaths(sb)
                 [] Len(sb.paths) = 0 /\ (sb.labelSelector # Nil \/ sb.fieldSelector # Nil) ->
                       visitBySelector(sb)
                 [] Len(sb.paths) = 0 /\ sb.labelSelector = Nil /\ sb.fieldSelector = Nil
                      /\ Len(sb.resourceTuples) # 0 -> visitByResource(sb)
                 [] Len(sb.paths) = 0 /\ sb.labelSelector = Nil /\ sb.fieldSelector = Nil
                      /\ Len(sb.resourceTuples) = 0 /\ Len(sb.names) # 0 -> visitByName(sb)
                 [] OTHER -> withError(NewResult("missing", FALSE, FALSE), missingResourceError)]

\* faulty variant: visitorResult that looks at the selectors before the paths
visitorResult_SelectorFirst(bb) ==
    LET sb == IF bb.selectAll THEN [bb EXCEPT !.labelSelector = ""] ELSE bb
    IN  IF Len(bb.errs) > 0
        THEN [b |-> bb,
              r |-> [NewResult("none", FALSE, FALSE) EXCEPT !.err = NewAggregate(bb.errs)]]
        ELSE [b |-> sb,
              r |-> CASE sb.labelSelector # Nil \/ sb.fieldSelector # Nil ->
                            visitBySelector(sb)
                      [] sb.labelSelector = Nil /\ sb.fieldSelector = Nil
                           /\ Len(sb.paths) # 0 -> visitByPaths(sb)
                      [] Len(sb.paths) = 0 /\ sb.labelSelector = Nil /\ sb.fieldSelector = Nil
                           /\ Len(sb.resourceTuples) # 0 -> visitByResource(sb)
                      [] Len(sb.paths) = 0 /\ sb.labelSelector = Nil /\ sb.fieldSelector = Nil
                           /\ Len(sb.resourceTuples) = 0 /\ Len(sb.names) # 0 -> visitByName(sb)
                      [] Len(sb.paths) = 0 /\ sb.labelSelector = Nil /\ sb.fieldSelector = Nil
                           /\ Len(sb.resourceTuples) = 0 /\ Len(sb.names) = 0
                           /\ Len(sb.resources) # 0 ->
                            TypesResult(TypesOnly(sb, sb.resources))
                      [] OTHER -> withError(NewResult("missing", FALSE, FALSE), missingResourceError)]

\* visitorResult: [b, r]; it stores the select-everything selector in b
visitorResult(bb) ==
    LET sb == IF bb.selectAll THEN [bb EXCEPT !.labelSelector = ""] ELSE bb
    IN  IF Len(bb.errs) > 0
        THEN [b |-> bb,
              r |-> [NewResult("none", FALSE, FALSE) EXCEPT !.err = NewAggregate(bb.errs)]]
        ELSE [b |-> sb,
              r |-> CASE Len(sb.paths) # 0 -> visitByPaths(sb)
                      [] Len(sb.paths) = 0 /\ (sb.labelSelector # Nil \/ sb.fieldSelector # Nil) ->
                            visitBySelector(sb)
                      [] Len(sb.paths) = 0 /\ sb.labelSelector = Nil /\ sb.fieldSelector = Nil
                           /\ Len(sb.resourceTuples) # 0 -> visitByResource(sb)
                      [] Len(sb.paths) = 0 /\ sb.labelSelector = Nil /\ sb.fieldSelector = Nil
                           /\ Len(sb.resourceTuples) = 0 /\ Len(sb.names) # 0 -> visitByName(sb)
                      [] Len(sb.paths) = 0 /\ sb.labelSelector = Nil /\ sb.fieldSelector = Nil
                           /\ Len(sb.resourceTuples) = 0 /\ Len(sb.names) = 0
                           /\ Len(sb.resources) # 0 ->
                            TypesResult(TypesOnly(sb, sb.resources))
                      [] OTHER -> withError(NewResult("missing", FALSE, FALSE), missingResourceError)]

\* faulty variant: the hooks of Do without the require-namespace hook
helpers_WithoutRequireNamespace(bb) ==
    (IF bb.defaultNamespace THEN <<Hook("SetNamespace", bb.namespace)>> ELSE <<>>)
    \o <<Hook("FilterNamespace", "")>>
    \o (IF bb.requireObject THEN <<Hook("RetrieveLazy", "")>> ELSE <<>>)

\* the hooks Do hands to the decorated visitor, in order
helpers(bb) ==
    (IF bb.defaultNamespace THEN <<Hook("SetNamespace", bb.namespace)>> ELSE <<>>)
    \o (IF bb.requireNamespace THEN <<Hook("RequireNamespace", bb.namespace)>> ELSE <<>>)
    \o <<Hook("FilterNamespace", "")>>
    \o (IF bb.requireObject THEN <<Hook("RetrieveLazy", "")>> ELSE <<>>)

\* faulty variant: Do that does not add the flattening layer
Do_WithoutFlatten(bb) ==
    LET vr == visitorResult(bb)
        res == [vr.r EXCEPT !.mapper = bb.mapper]
        coe == IF bb.continueOnError THEN ContinueOnErrorVisitor(res.visitor) ELSE res.visitor
    IN  IF bb.mapper = "nil" THEN [b |-> vr.b, r |-> vr.r, panic |-> TRUE]
        ELSE IF res.err # NoErr THEN [b |-> vr.b, r |-> res, panic |-> FALSE]
        ELSE [b |-> vr.b,
              r |-> [res EXCEPT !.visitor = NewDecoratedVisitor(coe, helpers(bb))],
              panic |-> FALSE]

\* faulty variant: Do that puts the continue-on-error wrapper around the
\* decorated visitor
Do_WrappingLast(bb) ==
    LET vr == visitorResult(bb)
        res == [vr.r EXCEPT !.mapper = bb.mapper]
        flat == IF bb.flatten THEN NewFlattenListVisitor(res.visitor) ELSE res.visitor
        dec == NewDecoratedVisitor(flat, helpers(bb))
    IN  IF bb.mapper = "nil" THEN [b |-> vr.b, r |-> vr.r, panic |-> TRUE]
        ELSE IF res.err # NoErr THEN [b |-> vr.b, r |-> res, panic |-> FALSE]
        ELSE [b |-> vr.b,
              r |-> [res EXCEPT !.visitor = IF bb.continueOnError
                                            THEN ContinueOnErrorVisitor(dec) ELSE dec],
              panic |-> FALSE]

\* Do: [b, r, panic]; b.Mapper() dereferences b.mapper, nil or not
Do(bb) ==
    LET vr == visitorResult(bb)
        res == [vr.r EXCEPT !.mapper = bb.mapper]
        flat == IF bb.flatten THEN NewFlattenListVisitor(res.visitor) ELSE res.visitor
        coe == IF bb.continueOnError THEN ContinueOnErrorVisitor(flat) ELSE flat
    IN  IF bb.mapper = "nil" THEN [b |-> vr.b, r |-> vr.r, panic |-> TRUE]
        ELSE IF res.err # NoErr THEN [b |-> vr.b, r |-> res, panic |-> FALSE]
        ELSE [b |-> vr.b,
              r |-> [res EXCEPT !.visitor = NewDecoratedVisitor(coe, helpers(bb))],
              panic |-> FALSE]

-----------------------------------------------------------------------------
(* Traversal: what the leaf visitors yield and what each layer does with an *)
(* item on its way to the caller's function.                                 *)

WithSrc(d, i) == [d EXCEPT !.src = i]

RECURSIVE AllWithSrc(_, _)
AllWithSrc(docs, i) ==
    IF docs = <<>> THEN <<>> ELSE <<WithSrc(Head(docs), i)>> \o AllWithSrc(Tail(docs), i)

\* labels.Selector.Matches
Matches(sel, label) == sel = "" \/ (sel = "app=x" /\ label = "x")

ServerDoc(o, namespaced) ==
    [name |-> o.name, ns |-> o.ns, res |-> o.resource, namespaced |-> namespaced,
     rv |-> o.rv, label |-> o.label, hasObj |-> TRUE, isList |-> FALSE,
     members |-> <<>>, src |-> 0]

\* the list a Selector fetches from the server
RECURSIVE ServerList(_, _)
ServerList(source, objs) ==
    IF objs = <<>> THEN <<>>
    ELSE LET o == Head(objs)
         IN  (IF o.resource = source.res /\ (source.ns = "" \/ o.ns = source.ns)
                 /\ Matches(source.sel, o.label)
              THEN <<ServerDoc(o, source.namespaced)>> ELSE <<>>)
             \o ServerList(source, Tail(objs))

\* Info.Get: the refreshed info, or not found
Get(info) ==
    LET found == {i \in 1..Len(ServerObjects) :
                     /\ ServerObjects[i].resource = info.res
                     /\ ServerObjects[i].ns = info.ns
                     /\ ServerObjects[i].name = info.name}
        o == ServerObjects[CHOOSE i \in found : TRUE]
    IN  IF found = {} THEN [info |-> info, err |-> <<"not found: " \o info.name>>]
        ELSE [info |-> [info EXCEPT !.hasObj = TRUE, !.rv = o.rv, !.label = o.label],
              err |-> NoErr]

\* what a child visitor yields when visited with pos documents of standard
\* input already consumed: [err, items]
ChildItems(child, i, pos) ==
    CASE child.kind = "stdin" ->
            [err |-> NoErr, items |-> AllWithSrc(SubSeq(StdinDocs, pos + 1, Len(StdinDocs)), i)]
      [] child.kind = "info" ->
            [err |-> NoErr,
             items |-> <<[name |-> child.name, ns |-> child.ns, res |-> child.res,
                          namespaced |-> child.namespaced, rv |-> "", label |-> "",
                          hasObj |-> FALSE, isList |-> FALSE, members |-> <<>>, src |-> i]>>]
      [] child.kind = "selector" ->
            [err |-> NoErr,
             items |-> <<[name |-> "", ns |-> child.ns, res |-> child.res,
                          namespaced |-> child.namespaced, rv |-> "9", label |-> "",
                          hasObj |-> TRUE, isList |-> TRUE,
                          members |-> ServerList(child, ServerObjects), src |-> i]>>]
      [] OTHER ->
            IF FileContent(child.name).bad
            THEN [err |-> <<DecodeError(child.name)>>, items |-> <<>>]
            ELSE [err |-> NoErr, items |-> AllWithSrc(FileContent(child.name).docs, i)]

\* the hooks of a decorated visitor: [info, err]
SetNamespace(info, ns) ==
    IF info.namespaced /\ info.ns = "" THEN [info EXCEPT !.ns = ns] ELSE info

RequireNamespaceHook(info, ns) ==
    CASE ~info.namespaced -> [info |-> info, err |-> NoErr]
      [] info.namespaced /\ info.ns = "" -> [info |-> [info EXCEPT !.ns = ns], err |-> NoErr]
      [] info.namespaced /\ info.ns # "" /\ info.ns # ns ->
            [info |-> info, err |-> <<"the namespace from the provided object does not match the namespace">>]
      [] OTHER -> [info |-> info, err |-> NoErr]

FilterNamespace(info) ==
    IF ~info.namespaced THEN [info EXCEPT !.ns = ""] ELSE info

RetrieveLazy(info) ==
    IF ~info.hasObj THEN Get(info) ELSE [info |-> info, err |-> NoErr]

RetrieveLatest(info) ==
    CASE info.isList -> [info |-> info, err |-> <<"a list of resources is found">>]
      [] ~info.isList /\ info.name = "" -> [info |-> info, err |-> NoErr]
      [] ~info.isList /\ info.name # "" /\ info.namespaced /\ info.ns = "" ->
            [info |-> info, err |-> <<"no namespace set on resource">>]
      [] OTHER -> Get(info)

RunHook(h, info) ==
    CASE h.fn = "SetNamespace"     -> [info |-> SetNamespace(info, h.ns), err |-> NoErr]
      [] h.fn = "RequireNamespace" -> RequireNamespaceHook(info, h.ns)
      [] h.fn = "FilterNamespace"  -> [info |-> FilterNamespace(info), err |-> NoErr]
      [] h.fn = "RetrieveLazy"     -> RetrieveLazy(info)
      [] OTHER                     -> RetrieveLatest(info)

\* the decorators in order, ending at the first error
RECURSIVE RunHooks(_, _)
RunHooks(hooks, info) ==
    IF hooks = <<>> THEN [info |-> info, err |-> NoErr]
    ELSE LET h == RunHook(Head(hooks), info)
         IN  IF h.err # NoErr THEN h ELSE RunHooks(Tail(hooks), h.info)

\* One item passing layers k.. and then the caller's function, which fails at
\* its abortAt-th call (never when abortAt = 0); n0 calls were made before.
\* [out: the items the caller's function received, err: the error handed
\* back down, coErrs: the errors a continue-on-error layer kept]
RECURSIVE Through(_, _, _, _, _)
RECURSIVE ThroughSeq(_, _, _, _, _)
Through(layers, k, info, n0, abortAt) ==
    IF k > Len(layers)
    THEN [out |-> <<info>>,
          err |-> IF abortAt = n0 + 1 THEN <<"callback error">> ELSE NoErr,
          coErrs |-> <<>>]
    ELSE LET l == layers[k]
             h == RunHooks(l.hooks, info)
             up == Through(layers, k + 1, info, n0, abortAt)
         IN  CASE l.kind = "flatten" ->
                    IF info.hasObj /\ info.isList
                    THEN ThroughSeq(layers, k + 1, AllWithSrc(info.members, info.src), n0, abortAt)
                    ELSE up
               [] l.kind = "decorated" ->
                    IF h.err # NoErr THEN [out |-> <<>>, err |-> h.err, coErrs |-> <<>>]
                    ELSE Through(layers, k + 1, h.info, n0, abortAt)
               [] l.kind = "filtered" ->
                    IF Matches(l.arg, info.label) THEN up
                    ELSE [out |-> <<>>, err |-> NoErr, coErrs |-> <<>>]
               [] OTHER ->
                    [out |-> up.out, err |-> NoErr, coErrs |-> up.coErrs \o up.err]

\* items passing layers k.. one after the other, ending at the first error
ThroughSeq(layers, k, items, n0, abortAt) ==
    IF items = <<>> THEN [out |-> <<>>, err |-> NoErr, coErrs |-> <<>>]
    ELSE LET first == Through(layers, k, Head(items), n0, abortAt)
             rest == ThroughSeq(layers, k, Tail(items), n0 + Len(first.out), abortAt)
         IN  IF first.err # NoErr THEN first
             ELSE [out |-> first.out \o rest.out, err |-> rest.err,
                   coErrs |-> first.coErrs \o rest.coErrs]

\* the items of one child going up from the root list, which keeps the errors
\* coming back when it is the eager list and ends at the first otherwise
ItemsJoin(first, rest) ==
    [out |-> first.out \o rest.out, err |-> rest.err,
     coErrs |-> first.coErrs \o rest.coErrs,
     eagerErrs |-> first.err \o rest.eagerErrs,
     consumed |-> 1 + rest.consumed]

RECURSIVE ItemsRun(_, _, _, _)
ItemsFrom(v, items, n0, abortAt, first) ==
    IF first.err # NoErr /\ v.root # "eager"
    THEN [out |-> first.out, err |-> first.err, coErrs |-> first.coErrs,
          eagerErrs |-> <<>>, consumed |-> 1]
    ELSE ItemsJoin(first, ItemsRun(v, Tail(items), n0 + Len(first.out), abortAt))

ItemsRun(v, items, n0, abortAt) ==
    IF items = <<>>
    THEN [out |-> <<>>, err |-> NoErr, coErrs |-> <<>>, eagerErrs |-> <<>>, consumed |-> 0]
    ELSE ItemsFrom(v, items, n0, abortAt, Through(v.layers, 1, Head(items), n0, abortAt))

\* the children from the i-th on, visited one after the other: run is what
\* the i-th child's items did, ciErr the error of reading the child
ChildrenJoin(i, childErr, run, rest) ==
    [out |-> run.out \o rest.out, err |-> rest.err,
     coErrs |-> run.coErrs \o rest.coErrs,
     eagerErrs |-> run.eagerErrs \o childErr \o rest.eagerErrs,
     pos |-> rest.pos, visited |-> <<i>> \o rest.visited]

RECURSIVE ChildrenRun(_, _, _, _, _)
ChildrenFrom(v, i, pos, n0, abortAt, ciErr, run) ==
    LET childErr == IF ciErr # NoErr THEN ciErr ELSE run.err
        pos2 == IF v.children[i].kind = "stdin" THEN pos + run.consumed ELSE pos
    IN  IF childErr # NoErr /\ v.root # "eager"
        THEN [out |-> run.out, err |-> childErr, coErrs |-> run.coErrs,
              eagerErrs |-> <<>>, pos |-> pos2, visited |-> <<i>>]
        ELSE ChildrenJoin(i, childErr, run,
                          ChildrenRun(v, i + 1, pos2, n0 + Len(run.out), abortAt))

ChildrenRun(v, i, pos, n0, abortAt) ==
    IF i > Len(v.children)
    THEN [out |-> <<>>, err |-> NoErr, coErrs |-> <<>>, eagerErrs |-> <<>>,
          pos |-> pos, visited |-> <<>>]
    ELSE LET ci == ChildItems(v.children[i], i, pos)
         IN  ChildrenFrom(v, i, pos, n0, abortAt, ci.err, ItemsRun(v, ci.items, n0, abortAt))

HasContinueOnError(v) == \E k \in 1..Len(v.layers) : v.layers[k].kind = "continueOnError"

\* the error the outermost visitor returns, given what the root list returned
\* and what the continue-on-error layer kept
VisitError(v, rootErr, coErrs) ==
    IF HasContinueOnError(v) THEN coErrs \o rootErr ELSE rootErr

\* what the outermost visitor returns, run being what the root list did
Outermost(v, run) ==
    [out |-> run.out,
     err |-> VisitError(v, IF v.root = "eager" THEN NewAggregate(run.eagerErrs) ELSE run.err,
                        run.coErrs),
     pos |-> run.pos, visited |-> run.visited, yielded |-> run.out]

\* one traversal of v, its children visited in order:
\* [out, err, pos, visited, yielded]
VisitAll(v, pos, abortAt) == Outermost(v, ChildrenRun(v, 1, pos, 0, abortAt))

-----------------------------------------------------------------------------
(* Result: its methods.  tr is what a traversal of res.visitor yields when   *)
(* the method makes one: [out, err].  Each method gives the Result it leaves *)
(* behind, what it returns, and whether it traversed the visitor.            *)

NoObject == [kind |-> "none", items |-> <<>>, version |-> ""]

Ret(op, err, nil, items, obj, via) ==
    [op |-> op, err |-> err, nil |-> nil, items |-> items, obj |-> obj, via |-> via]

NoRet == Ret("", NoErr, TRUE, <<>>, NoObject, "")

IgnoreErrors(res, fns) == [res EXCEPT !.ignoreErrors = @ \cup fns]

Err(res) == res.err

\* faulty variant: Visit that traverses whatever error the Result stores
Visit_IgnoringStoredError(res, tr) ==
    [r |-> res,
     ret |-> Ret("Visit", FilterOut(tr.err, res.ignoreErrors), TRUE, tr.out, NoObject, ""),
     traversed |-> TRUE]

\* faulty variant: Visit that keeps the items its traversal gave as the
\* memoized list
Visit_Memoizing(res, tr) ==
    IF res.err # NoErr
    THEN [r |-> res, ret |-> Ret("Visit", res.err, TRUE, <<>>, NoObject, ""),
          traversed |-> FALSE]
    ELSE [r |-> [res EXCEPT !.info = [nil |-> FALSE, items |-> tr.out]],
          ret |-> Ret("Visit", FilterOut(tr.err, res.ignoreErrors), TRUE, tr.out, NoObject, ""),
          traversed |-> TRUE]

Visit(res, tr) ==
    IF res.err # NoErr
    THEN [r |-> res, ret |-> Ret("Visit", res.err, TRUE, <<>>, NoObject, ""),
          traversed |-> FALSE]
    ELSE [r |-> res,
          ret |-> Ret("Visit", FilterOut(tr.err, res.ignoreErrors), TRUE, tr.out, NoObject, ""),
          traversed |-> TRUE]

\* faulty variant: Infos that takes only a non-empty list for memoized
Infos_CachingNonEmpty(res, tr) ==
    IF res.err # NoErr
    THEN [r |-> res, ret |-> Ret("Infos", res.err, TRUE, <<>>, NoObject, ""),
          traversed |-> FALSE]
    ELSE IF Len(res.info.items) > 0
    THEN [r |-> res, ret |-> Ret("Infos", NoErr, FALSE, res.info.items, NoObject, ""),
          traversed |-> FALSE]
    ELSE [r |-> [res EXCEPT !.info = [nil |-> FALSE, items |-> tr.out],
                            !.err = FilterOut(tr.err, res.ignoreErrors)],
          ret |-> Ret("Infos", FilterOut(tr.err, res.ignoreErrors), FALSE, tr.out, NoObject, ""),
          traversed |-> TRUE]

RECURSIVE Reverse(_)
Reverse(seq) == IF seq = <<>> THEN <<>> ELSE Append(Reverse(Tail(seq)), Head(seq))

\* faulty variant: Infos that puts each item it is given before the others
Infos_NewestFirst(res, tr) ==
    IF res.err # NoErr
    THEN [r |-> res, ret |-> Ret("Infos", res.err, TRUE, <<>>, NoObject, ""),
          traversed |-> FALSE]
    ELSE IF ~res.info.nil
    THEN [r |-> res, ret |-> Ret("Infos", NoErr, FALSE, res.info.items, NoObject, ""),
          traversed |-> FALSE]
    ELSE [r |-> [res EXCEPT !.info = [nil |-> FALSE, items |-> Reverse(tr.out)],
                            !.err = FilterOut(tr.err, res.ignoreErrors)],
          ret |-> Ret("Infos", FilterOut(tr.err, res.ignoreErrors), FALSE, Reverse(tr.out),
                      NoObject, ""),
          traversed |-> TRUE]

Infos(res, tr) ==
    IF res.err # NoErr
    THEN [r |-> res, ret |-> Ret("Infos", res.err, TRUE, <<>>, NoObject, ""),
          traversed |-> FALSE]
    ELSE IF ~res.info.nil
    THEN [r |-> res, ret |-> Ret("Infos", NoErr, FALSE, res.info.items, NoObject, ""),
          traversed |-> FALSE]
    ELSE LET err == FilterOut(tr.err, res.ignoreErrors)
         IN  [r |-> [res EXCEPT !.info = [nil |-> FALSE, items |-> tr.out], !.err = err],
              ret |-> Ret("Infos", err, FALSE, tr.out, NoObject, ""),
              traversed |-> TRUE]

\* the infos that carry an object, in order
RECURSIVE Objects(_)
Objects(infos) ==
    IF infos = <<>> THEN <<>>
    ELSE (IF Head(infos).hasObj THEN <<Head(infos)>> ELSE <<>>) \o Objects(Tail(infos))

toV1List(objects, version) == [kind |-> "list", items |-> objects, version |-> version]

\* faulty variant: Object that gives the list the version of its first object
Object_FirstVersion(res, tr) ==
    LET i == Infos(res, tr)
        objects == Objects(i.ret.items)
        version == IF Len(objects) > 0 THEN objects[1].rv ELSE ""
        single == [kind |-> "object", items |-> objects, version |-> ""]
    IN  IF i.ret.err # NoErr
        THEN [r |-> i.r, ret |-> Ret("Object", i.ret.err, TRUE, <<>>, NoObject, ""),
              traversed |-> i.traversed]
        ELSE IF Len(objects) = 1 /\ (res.singleItemImplied \/ objects[1].isList)
        THEN [r |-> i.r, ret |-> Ret("Object", NoErr, TRUE, <<>>, single, ""),
              traversed |-> i.traversed]
        ELSE [r |-> i.r,
              ret |-> Ret("Object", NoErr, TRUE, <<>>, toV1List(objects, version), ""),
              traversed |-> i.traversed]

Object(res, tr) ==
    LET i == Infos(res, tr)
        objects == Objects(i.ret.items)
        versions == {objects[k].rv : k \in 1..Len(objects)}
        version == IF Cardinality(versions) = 1 THEN CHOOSE x \in versions : TRUE ELSE ""
        single == [kind |-> "object", items |-> objects, version |-> ""]
    IN  IF i.ret.err # NoErr
        THEN [r |-> i.r, ret |-> Ret("Object", i.ret.err, TRUE, <<>>, NoObject, ""),
              traversed |-> i.traversed]
        ELSE IF Len(objects) = 1 /\ (res.singleItemImplied \/ objects[1].isList)
        THEN [r |-> i.r, ret |-> Ret("Object", NoErr, TRUE, <<>>, single, ""),
              traversed |-> i.traversed]
        ELSE [r |-> i.r,
              ret |-> Ret("Object", NoErr, TRUE, <<>>, toV1List(objects, version), ""),
              traversed |-> i.traversed]

\* the source implements ResourceMapping
HasResourceMapping(source) == source.kind \in {"info", "selector"}

\* the source implements Watchable
Watchable(source) == source.kind \in {"info", "selector"}

\* faulty variant: ResourceMapping that gives the mapping of the first source
ResourceMapping_FirstSource(res) ==
    IF res.err # NoErr THEN Ret("ResourceMapping", res.err, TRUE, <<>>, NoObject, "")
    ELSE IF \E i \in 1..Len(res.sources) : ~HasResourceMapping(res.sources[i])
    THEN Ret("ResourceMapping", <<"a resource mapping could not be loaded">>, TRUE, <<>>, NoObject, "")
    ELSE IF res.sources = <<>>
    THEN Ret("ResourceMapping", <<"expected only a single resource type">>, TRUE, <<>>, NoObject, "")
    ELSE Ret("ResourceMapping", NoErr, TRUE, <<>>, NoObject, res.sources[1].res)

ResourceMapping(res) ==
    LET unmapped == {i \in 1..Len(res.sources) : ~HasResourceMapping(res.sources[i])}
        mappings == {res.sources[i].res : i \in 1..Len(res.sources)}
    IN  IF res.err # NoErr THEN Ret("ResourceMapping", res.err, TRUE, <<>>, NoObject, "")
        ELSE IF unmapped # {}
        THEN Ret("ResourceMapping", <<"a resource mapping could not be loaded">>, TRUE, <<>>, NoObject, "")
        ELSE IF Cardinality(mappings) # 1
        THEN Ret("ResourceMapping", <<"expected only a single resource type">>, TRUE, <<>>, NoObject, "")
        ELSE Ret("ResourceMapping", NoErr, TRUE, <<>>, NoObject, CHOOSE m \in mappings : TRUE)

\* faulty variant: Watch that always materializes through Infos, whether the
\* source can be watched or not
Watch_Materializing(res, tr) ==
    LET i == Infos(res, tr)
    IN  IF res.err # NoErr
        THEN [r |-> res, ret |-> Ret("Watch", res.err, TRUE, <<>>, NoObject, ""),
              traversed |-> FALSE]
        ELSE IF Len(res.sources) # 1
        THEN [r |-> res,
              ret |-> Ret("Watch", <<"you may only watch a single resource or type of resource at a time">>,
                          TRUE, <<>>, NoObject, ""),
              traversed |-> FALSE]
        ELSE IF i.ret.err # NoErr
        THEN [r |-> i.r, ret |-> Ret("Watch", i.ret.err, TRUE, <<>>, NoObject, ""),
              traversed |-> i.traversed]
        ELSE IF Len(i.ret.items) # 1
        THEN [r |-> i.r,
              ret |-> Ret("Watch", <<"watch is only supported on individual resources and resource collections">>,
                          TRUE, <<>>, NoObject, ""),
              traversed |-> i.traversed]
        ELSE [r |-> i.r, ret |-> Ret("Watch", NoErr, TRUE, i.ret.items, NoObject, "info"),
              traversed |-> i.traversed]

Watch(res, tr) ==
    LET i == Infos(res, tr)
    IN  IF res.err # NoErr
        THEN [r |-> res, ret |-> Ret("Watch", res.err, TRUE, <<>>, NoObject, ""),
              traversed |-> FALSE]
        ELSE IF Len(res.sources) # 1
        THEN [r |-> res,
              ret |-> Ret("Watch", <<"you may only watch a single resource or type of resource at a time">>,
                          TRUE, <<>>, NoObject, ""),
              traversed |-> FALSE]
        ELSE IF Watchable(res.sources[1])
        THEN [r |-> res, ret |-> Ret("Watch", NoErr, TRUE, <<>>, NoObject, "source"),
              traversed |-> FALSE]
        ELSE IF i.ret.err # NoErr
        THEN [r |-> i.r, ret |-> Ret("Watch", i.ret.err, TRUE, <<>>, NoObject, ""),
              traversed |-> i.traversed]
        ELSE IF Len(i.ret.items) # 1
        THEN [r |-> i.r,
              ret |-> Ret("Watch", <<"watch is only supported on individual resources and resource collections">>,
                          TRUE, <<>>, NoObject, ""),
              traversed |-> i.traversed]
        ELSE [r |-> i.r, ret |-> Ret("Watch", NoErr, TRUE, i.ret.items, NoObject, "info"),
              traversed |-> i.traversed]

-----------------------------------------------------------------------------
(* warningWriter: the handler of the Warning headers of the responses.  The  *)
(* requests of a command run in goroutines, so HandleWarningHeader is called *)
(* concurrently; a call is a sequence of steps, and w.at[p] is the step the  *)
(* call of goroutine p is at.  w.writtenLock is 0 or the goroutine that      *)
(* holds the mutex.                                                          *)

MaxHandlers == 2       \* goroutines that handle responses
MaxWarnings == 3       \* HandleWarningHeader calls per run

Handlers == 1..MaxHandlers

\* given: the headers handed to HandleWarningHeader; handled: the messages of
\* the calls that went through the lock and returned, in order of return;
\* count: what the last WarningCount() returned and the number of warnings
\* written when it did (ghost state)
NewWarningWriter(opts) ==
    [opts |-> opts, written |-> IF opts.Deduplicate THEN {} ELSE Nil,
     writtenCount |-> 0, out |-> <<>>, writtenLock |-> 0,
     at |-> [p \in Handlers |-> "idle"], message |-> [p \in Handlers |-> ""],
     alreadyWritten |-> [p \in Handlers |-> FALSE],
     given |-> <<>>, handled |-> <<>>, count |-> [returned |-> 0, written |-> 0, calls |-> 0]]

\* the call begins: a header that is not a 299 warning with a text is dropped
\* before the lock is asked for
HandleWarningHeader(p, code, message) ==
    /\ w.at[p] = "idle"
    /\ Len(w.given) < MaxWarnings
    /\ w' = [w EXCEPT !.at[p] = IF code # 299 \/ message = "" THEN "idle" ELSE "lock",
                      !.message[p] = IF code # 299 \/ message = "" THEN @ ELSE message,
                      !.given = Append(@, [code |-> code, message |-> message])]
    /\ UNCHANGED <<builder, crt, ce, pl, mv>>

\* faulty variant: a Lock that does not wait for the mutex
Lock_NotWaiting(p) ==
    /\ w.at[p] = "lock"
    /\ w' = [w EXCEPT !.writtenLock = p, !.at[p] = "lookup"]
    /\ UNCHANGED <<builder, crt, ce, pl, mv>>

\* w.writtenLock.Lock()
Lock(p) ==
    /\ w.at[p] = "lock"
    /\ w.writtenLock = 0
    /\ w' = [w EXCEPT !.writtenLock = p, !.at[p] = "lookup"]
    /\ UNCHANGED <<builder, crt, ce, pl, mv>>

\* _, alreadyWritten := w.written[message]
Lookup(p) ==
    /\ w.at[p] = "lookup"
    /\ w' = [w EXCEPT !.alreadyWritten[p] = w.opts.Deduplicate /\ w.message[p] \in w.written,
                      !.at[p] = IF w.opts.Deduplicate /\ w.message[p] \in w.written
                                THEN "unlock" ELSE "write"]
    /\ UNCHANGED <<builder, crt, ce, pl, mv>>

\* the message is recorded, counted and printed
Write(p) ==
    /\ w.at[p] = "write"
    /\ w' = [w EXCEPT !.written = IF w.opts.Deduplicate THEN @ \cup {w.message[p]} ELSE @,
                      !.writtenCount = @ + 1,
                      !.out = Append(@, [color |-> w.opts.Color, message |-> w.message[p]]),
                      !.at[p] = "unlock"]
    /\ UNCHANGED <<builder, crt, ce, pl, mv>>

\* the deferred w.writtenLock.Unlock(), and the call returns
Unlock(p) ==
    /\ w.at[p] = "unlock"
    /\ w' = [w EXCEPT !.writtenLock = 0,
                      !.at[p] = "idle",
                      !.handled = Append(@, w.message[p])]
    /\ UNCHANGED <<builder, crt, ce, pl, mv>>

\* WarningCount reads w.writtenCount holding the mutex
WarningCount ==
    /\ w.writtenLock = 0
    /\ w.count.calls < MaxWarnings
    /\ w' = [w EXCEPT !.count = [returned |-> w.writtenCount, written |-> Len(w.out),
                                 calls |-> @.calls + 1]]
    /\ UNCHANGED <<builder, crt, ce, pl, mv>>

-----------------------------------------------------------------------------
(* CommandHeaderRoundTripper: the headers that describe the kubectl command. *)
(* A string is the sequence of its parts; a map is a function on its keys,   *)
(* the nil map and the empty map both being the function on no key.          *)

MaxParses == 2         \* ParseCommandHeaders calls per run

\* the commands: what cobra's Command.Use holds, and the parent
Use(cmd) ==
    CASE cmd = "root"    -> <<"kubectl">>
      [] cmd = "create"  -> <<"create", " ", "-f", " ", "FILENAME">>
      [] cmd = "secret"  -> <<"secret">>
      [] cmd = "generic" -> <<"generic", " ", "NAME">>
      [] cmd = "version" -> <<"\t", "version", "\n", " ", "[flags]">>
      [] OTHER           -> <<>>

Parent(cmd) ==
    CASE cmd \in {"create", "version", "anonymous"} -> "root"
      [] cmd = "secret"                             -> "create"
      [] cmd = "generic"                            -> "secret"
      [] OTHER                                      -> Nil

\* strings.TrimSpace
RECURSIVE TrimSpace(_)
TrimSpace(str) ==
    IF str = <<>> THEN <<>>
    ELSE IF Head(str) \in {" ", "\t", "\n"} THEN TrimSpace(Tail(str))
    ELSE IF str[Len(str)] \in {" ", "\t", "\n"} THEN TrimSpace(SubSeq(str, 1, Len(str) - 1))
    ELSE str

\* strings.TrimSpace(cmd.Name()): Name is Use up to its first space
Name(cmd) == TrimSpace(Split(Use(cmd), " ")[1])

\* the loop of ParseCommandHeaders up the hierarchy of commands
RECURSIVE CmdStrs(_, _)
CmdStrs(cmd, cmdStrs) ==
    IF Parent(cmd) # Nil THEN CmdStrs(Parent(cmd), <<Name(cmd)>> \o cmdStrs)
    ELSE <<Name(cmd)>> \o cmdStrs

\* sent: the headers of the requests handed to the delegate; parses: the
\* ParseCommandHeaders calls made; cmd, uid, before: the arguments of the last
\* one, the identifier it drew and the headers it found (ghost state)
NewRoundTripper(headers) ==
    [Headers |-> headers, sent |-> <<>>, parses |-> 0,
     cmd |-> Nil, uid |-> <<>>, before |-> <<>>]

\* faulty variant: a ParseCommandHeaders that adds to the headers it finds
ParseCommandHeaders_Additive(cmd, uid) ==
    /\ crt.parses < MaxParses
    /\ crt' = [crt EXCEPT
                 !.Headers = IF cmd = Nil THEN @
                             ELSE ("Kubectl-Session" :> uid
                                   @@ "Kubectl-Command" :> Join(CmdStrs(cmd, <<>>), " "))
                                  @@ @,
                 !.parses = @ + 1, !.cmd = cmd, !.uid = uid, !.before = crt.Headers]
    /\ UNCHANGED <<builder, w, ce, pl, mv>>

\* uid is what uuid.New().String() gives
ParseCommandHeaders(cmd, uid) ==
    /\ crt.parses < MaxParses
    /\ crt' = [crt EXCEPT
                 !.Headers = IF cmd = Nil THEN @
                             ELSE "Kubectl-Session" :> uid
                                  @@ "Kubectl-Command" :> Join(CmdStrs(cmd, <<>>), " "),
                 !.parses = @ + 1, !.cmd = cmd, !.uid = uid, !.before = crt.Headers]
    /\ UNCHANGED <<builder, w, ce, pl, mv>>

\* RoundTrip sets the headers on the request, header being the headers the
\* request came with, and hands the request to the delegate
RoundTrip(header) ==
    /\ Len(crt.sent) < MaxParses
    /\ crt' = [crt EXCEPT !.sent = Append(@, crt.Headers @@ header)]
    /\ UNCHANGED <<builder, w, ce, pl, mv>>

-----------------------------------------------------------------------------
(* cachingCategoryExpanderFunc: the category expander NewBuilder caches.    *)
(* An expander is the number of the delegate call that built it, 0 being    *)
(* the nil expander.  A deferred Unlock runs when the call returns.         *)

MaxCallers == 3        \* goroutines that ask for the expander
MaxExpands == 4        \* ToCategoryExpander calls per run

Callers == 1..MaxCallers

ToDiscoveryClientFailed == <<"discovery failed">>

\* at: where each caller is; lock: the caller holding the mutex, or 0;
\* made: what the delegate gave each caller; delegated: the calls of the
\* delegate; succeeded: those that gave an expander; late: those made
\* after one had given an expander; stored: the writes of cached;
\* returned: what the calls returned, in the order they returned
NewCachingExpander ==
    [cached |-> 0, lock |-> 0,
     at |-> [p \in Callers |-> "idle"],
     made |-> [p \in Callers |-> [expander |-> 0, err |-> NoErr]],
     started |-> 0, delegated |-> 0, succeeded |-> 0, late |-> 0, stored |-> 0,
     returned |-> <<>>]

\* faulty variant: ToCategoryExpander that does not take the mutex
ToCategoryExpander_NotLocking(p) ==
    /\ ce.at[p] = "idle"
    /\ ce.started < MaxExpands
    /\ ce' = IF ce.cached # 0
             THEN [ce EXCEPT !.started = @ + 1,
                             !.returned = Append(@, [expander |-> ce.cached, err |-> NoErr])]
             ELSE [ce EXCEPT !.started = @ + 1,
                             !.at[p] = "delegate"]
    /\ UNCHANGED <<builder, w, crt, pl, mv>>

\* ToCategoryExpander up to the call of the delegate: the caller takes the
\* mutex and returns the cached expander if there is one
ToCategoryExpander(p) ==
    /\ ce.at[p] = "idle"
    /\ ce.started < MaxExpands
    /\ ce.lock = 0
    /\ ce' = IF ce.cached # 0
             THEN [ce EXCEPT !.started = @ + 1,
                             !.returned = Append(@, [expander |-> ce.cached, err |-> NoErr])]
             ELSE [ce EXCEPT !.started = @ + 1,
                             !.lock = p,
                             !.at[p] = "delegate"]
    /\ UNCHANGED <<builder, w, crt, pl, mv>>

\* c.delegate(): the discovery client is built or not, and a new expander
\* is made of it
delegate(p, ok) ==
    /\ ce.at[p] = "delegate"
    /\ ce' = [ce EXCEPT !.delegated = @ + 1,
                        !.succeeded = IF ok THEN @ + 1 ELSE @,
                        !.late = IF ce.succeeded > 0 THEN @ + 1 ELSE @,
                        !.made[p] = IF ok THEN [expander |-> ce.delegated + 1, err |-> NoErr]
                                    ELSE [expander |-> 0, err |-> ToDiscoveryClientFailed],
                        !.at[p] = "made"]
    /\ UNCHANGED <<builder, w, crt, pl, mv>>

\* the rest of ToCategoryExpander: the error is returned, or the expander
\* is stored and returned; the mutex is released
Cache(p) ==
    /\ ce.at[p] = "made"
    /\ ce' = IF ce.made[p].err # NoErr
             THEN [ce EXCEPT !.returned = Append(@, ce.made[p]),
                             !.lock = IF @ = p THEN 0 ELSE @,
                             !.at[p] = "idle"]
             ELSE [ce EXCEPT !.cached = ce.made[p].expander,
                             !.stored = @ + 1,
                             !.returned = Append(@, [expander |-> ce.made[p].expander,
                                                     err |-> NoErr]),
                             !.lock = IF @ = p THEN 0 ELSE @,
                             !.at[p] = "idle"]
    /\ UNCHANGED <<builder, w, crt, pl, mv>>

-----------------------------------------------------------------------------
(* HandlePluginCommand: the search for a plugin executable.  An argument is *)
(* the sequence of its parts, a dash being a part of its own.  The handler  *)
(* is the DefaultPluginHandler with the prefix kubectl; the executables on  *)
(* the PATH are given by their file names.                                   *)

MaxArgs == 3           \* command-line arguments handed to HandlePluginCommand

\* strings.HasPrefix, for a prefix of one part
HasPrefix(arg, prefix) == arg # <<>> /\ arg[1] = prefix

\* strings.Replace(arg, old, new, -1)
Replace(arg, old, new) ==
    [i \in 1..Len(arg) |-> IF arg[i] = old THEN new ELSE arg[i]]

\* the loop over cmdArgs: the arguments before the first flag
RECURSIVE NonFlagArgs(_, _)
NonFlagArgs(cmdArgs, remainingArgs) ==
    IF cmdArgs = <<>> \/ HasPrefix(Head(cmdArgs), "-") THEN remainingArgs
    ELSE NonFlagArgs(Tail(cmdArgs),
                     Append(remainingArgs, Replace(Head(cmdArgs), "-", "_")))

\* DefaultPluginHandler.Lookup with ValidPrefixes = [kubectl]
PluginLookup(onPath, filename) ==
    LET name == <<"kubectl", "-">> \o filename
    IN  IF name \in onPath THEN [path |-> <<"/bin/">> \o name, found |-> TRUE]
        ELSE [path |-> <<>>, found |-> FALSE]

\* at: where the call is; looked: the names handed to Lookup, in order;
\* executed: the Execute calls, each with its path and arguments;
\* returned: the call has returned, and err: the error it returned;
\* replaced: the plugin has taken the place of the process
NewPluginRun(onPath) ==
    [onPath |-> onPath, at |-> "idle", cmdArgs |-> <<>>, exactMatch |-> FALSE,
     remainingArgs |-> <<>>, foundBinaryPath |-> <<>>,
     looked |-> <<>>, executed |-> <<>>, returned |-> FALSE, err |-> NoErr,
     replaced |-> FALSE]

\* HandlePluginCommand up to its loop
HandlePluginCommand(cmdArgs, exactMatch) ==
    /\ pl.at = "idle"
    /\ LET remainingArgs == NonFlagArgs(cmdArgs, <<>>)
       IN  pl' = IF Len(remainingArgs) = 0
                 THEN [pl EXCEPT !.cmdArgs = cmdArgs, !.exactMatch = exactMatch,
                                 !.returned = TRUE,
                                 !.err = <<"flags cannot be placed before plugin name">>,
                                 !.at = "done"]
                 ELSE [pl EXCEPT !.cmdArgs = cmdArgs, !.exactMatch = exactMatch,
                                 !.remainingArgs = remainingArgs,
                                 !.foundBinaryPath = <<>>,
                                 !.at = "loop"]
    /\ UNCHANGED <<builder, w, crt, ce, mv>>

\* faulty variant: an iteration that keeps the name it looked up after a miss
FindBinary_KeepingName ==
    /\ pl.at = "loop"
    /\ LET l == PluginLookup(pl.onPath, Join(pl.remainingArgs, "-"))
       IN  pl' = IF Len(pl.remainingArgs) = 0 THEN [pl EXCEPT !.at = "after"]
                 ELSE IF ~l.found
                 THEN [pl EXCEPT !.looked = Append(@, Join(pl.remainingArgs, "-")),
                                 !.at = IF pl.exactMatch THEN "after" ELSE "loop"]
                 ELSE [pl EXCEPT !.looked = Append(@, Join(pl.remainingArgs, "-")),
                                 !.foundBinaryPath = l.path,
                                 !.at = "after"]
    /\ UNCHANGED <<builder, w, crt, ce, mv>>

\* one iteration of the loop that looks for the binary
FindBinary ==
    /\ pl.at = "loop"
    /\ LET l == PluginLookup(pl.onPath, Join(pl.remainingArgs, "-"))
       IN  pl' = IF Len(pl.remainingArgs) = 0 THEN [pl EXCEPT !.at = "after"]
                 ELSE IF ~l.found
                 THEN [pl EXCEPT !.looked = Append(@, Join(pl.remainingArgs, "-")),
                                 !.remainingArgs =
                                     IF pl.exactMatch THEN @
                                     ELSE SubSeq(@, 1, Len(@) - 1),
                                 !.at = IF pl.exactMatch THEN "after" ELSE "loop"]
                 ELSE [pl EXCEPT !.looked = Append(@, Join(pl.remainingArgs, "-")),
                                 !.foundBinaryPath = l.path,
                                 !.at = "after"]
    /\ UNCHANGED <<builder, w, crt, ce, mv>>

\* the end of HandlePluginCommand: nothing found, or the plugin is executed
\* and takes the place of the process, or Execute fails
Execute(ok) ==
    /\ pl.at = "after"
    /\ pl' = IF Len(pl.foundBinaryPath) = 0
             THEN [pl EXCEPT !.returned = TRUE, !.at = "done"]
             ELSE [pl EXCEPT
                     !.executed = Append(@, [executablePath |-> pl.foundBinaryPath,
                                             cmdArgs |-> SubSeq(pl.cmdArgs,
                                                                Len(pl.remainingArgs) + 1,
                                                                Len(pl.cmdArgs))]),
                     !.replaced = ok,
                     !.returned = ~ok,
                     !.err = IF ok THEN NoErr ELSE <<"exec format error">>,
                     !.at = "done"]
    /\ UNCHANGED <<builder, w, crt, ce, mv>>

-----------------------------------------------------------------------------
(* MatchVersionFlags: the check of the server version, made once.  A        *)
(* sync.Once runs the function of its first Do; a Do that arrives while it  *)
(* runs waits until it has returned.                                         *)

MaxGetters == 2        \* goroutines that ask for a config, a client or a mapper
MaxGets == 3           \* calls of the three methods per run

Getters == 1..MaxGetters

Methods == {"ToRESTConfig", "ToDiscoveryClient", "ToRESTMapper"}

\* checkServerVersion: "new", "running" or "done"; at: where each caller is;
\* method: the method it is in; bodies: the runs of the function handed to
\* the Once; flagged: the values the flag was given; returned: what each
\* call returned, with the outcome of the check it saw and whether it called
\* the method of the delegate
NewMatchVersionFlags ==
    [RequireMatchedServerVersion |-> FALSE, checkServerVersion |-> "new",
     matchesServerVersionErr |-> NoErr,
     at |-> [p \in Getters |-> "idle"], method |-> [p \in Getters |-> ""],
     started |-> 0, bodies |-> 0, flagged |-> <<>>, returned |-> <<>>]

\* the flag match-server-version is given a value
AddFlags(value) ==
    /\ Len(mv.flagged) < MaxGets
    /\ mv' = [mv EXCEPT !.RequireMatchedServerVersion = value,
                        !.flagged = Append(@, value)]
    /\ UNCHANGED <<builder, w, crt, ce, pl>>

\* faulty variant: a checkMatchingServerVersion that runs the check on every
\* call
checkMatchingServerVersion_EveryCall(p, method) ==
    /\ mv.at[p] = "idle"
    /\ mv.started < MaxGets
    /\ mv' = [mv EXCEPT !.started = @ + 1,
                        !.method[p] = method,
                        !.at[p] = "body"]
    /\ UNCHANGED <<builder, w, crt, ce, pl>>

\* one of the three methods is called and reaches checkServerVersion.Do
checkMatchingServerVersion(p, method) ==
    /\ mv.at[p] = "idle"
    /\ mv.started < MaxGets
    /\ mv.checkServerVersion # "running"
    /\ mv' = [mv EXCEPT !.started = @ + 1,
                        !.method[p] = method,
                        !.checkServerVersion = IF @ = "new" THEN "running" ELSE @,
                        !.at[p] = IF mv.checkServerVersion = "new" THEN "body" ELSE "checked"]
    /\ UNCHANGED <<builder, w, crt, ce, pl>>

\* what the function handed to the Once finds
CheckOutcomes == {"matches", "no discovery client", "server version differs"}

\* the function handed to the Once: nothing to check without the flag, else
\* the error of the discovery client or of the comparison of versions
MatchesServerVersion(p, outcome) ==
    /\ mv.at[p] = "body"
    /\ mv' = [mv EXCEPT !.bodies = @ + 1,
                        !.matchesServerVersionErr =
                            IF ~mv.RequireMatchedServerVersion \/ outcome = "matches"
                            THEN NoErr ELSE <<outcome>>,
                        !.checkServerVersion = "done",
                        !.at[p] = "checked"]
    /\ UNCHANGED <<builder, w, crt, ce, pl>>

\* the rest of the method: the error of the check is returned as it is,
\* else the method of the delegate is called and its result returned
ToDelegate(p, ok) ==
    /\ mv.at[p] = "checked"
    /\ LET err == mv.matchesServerVersionErr
       IN mv' = [mv EXCEPT !.at[p] = "idle",
                           !.returned = Append(@,
                               [method |-> mv.method[p], checked |-> err,
                                delegated |-> err = NoErr,
                                err |-> IF err # NoErr THEN err
                                        ELSE IF ok THEN NoErr
                                        ELSE <<"delegate failed">>])]
    /\ UNCHANGED <<builder, w, crt, ce, pl>>

-----------------------------------------------------------------------------
(* The state machine: a caller configures the Builder, calls Do, and uses   *)
(* the Result.                                                               *)

TIdle ==
    [active |-> FALSE, op |-> "", abortAt |-> 0, status |-> <<>>, idx |-> <<>>,
     buf |-> <<>>, snap |-> <<>>, reading |-> <<>>, cerr |-> <<>>, out |-> <<>>,
     seen |-> <<>>, firstErr |-> NoErr, order |-> <<>>]

\* dos: Do calls made; stdinClaims: times standard input was claimed;
\* dirExpanded: a directory was given as a path; how: the other ways a path
\* was given, recursively or as a pattern, and the selections of a mapper,
\* the first and those made after it; doErr: the error of the
\* Result as Do returned it; visits: traversals of r.visitor started;
\* infoVisits: those started by Infos, Object or Watch; traversed: the last
\* completed call traversed; visited: the sources it visited, in order;
\* travErr: the error the visitor returned; yielded: the items the caller's
\* function received; prev: what the call before the last returned
NoHist ==
    [dos |-> 0, stdinClaims |-> 0, dirExpanded |-> FALSE, how |-> {}, doErr |-> NoErr,
     visits |-> 0, infoVisits |-> 0, traversed |-> FALSE, visited |-> <<>>,
     travErr |-> NoErr, yielded |-> <<>>, prev |-> NoRet]

Init ==
    /\ b = newBuilder("ok", "ok")
    /\ r = NewResult("none", FALSE, FALSE)
    /\ pc = "config"
    /\ calls = 0
    /\ ops = 0
    /\ t = TIdle
    /\ stdinPos = 0
    /\ ret = NoRet
    /\ hist = NoHist
    /\ w = NewWarningWriter([Deduplicate |-> FALSE, Color |-> FALSE])
    /\ crt = NewRoundTripper(<<>>)
    /\ ce = NewCachingExpander
    /\ pl = NewPluginRun({})
    /\ mv = NewMatchVersionFlags

\* a configuration call leaving the Builder nb behind, having claimed
\* standard input claims times and been given a directory or not, and
\* paths in the ways how
Configure(nb, claims, dir, how) ==
    /\ pc = "config"
    /\ calls < MaxCalls
    /\ Len(nb.paths) <= MaxPaths
    /\ b' = nb
    /\ calls' = calls + 1
    /\ hist' = [hist EXCEPT !.stdinClaims = @ + claims,
                            !.dirExpanded = @ \/ dir,
                            !.how = @ \cup how]
    /\ UNCHANGED <<r, pc, ops, t, stdinPos, ret>>
    /\ UNCHANGED aux

Config(nb) == Configure(nb, 0, FALSE, {})

Options(filenames, kustomize, recursive) ==
    [Filenames |-> filenames, Kustomize |-> kustomize, Recursive |-> recursive]

\* Do in the configuration phase, or again on the configured Builder
CallDo ==
    /\ \/ pc = "config"
       \/ pc = "result" /\ ops < MaxOps /\ ~t.active
    /\ LET d == Do(b)
       IN  /\ b' = d.b
           /\ r' = d.r
           /\ pc' = IF d.panic THEN "panic" ELSE "result"
           /\ hist' = [NoHist EXCEPT !.dos = hist.dos + 1,
                                     !.stdinClaims = hist.stdinClaims,
                                     !.dirExpanded = hist.dirExpanded,
                                     !.how = hist.how,
                                     !.doErr = d.r.err]
    /\ ops' = IF pc = "result" THEN ops + 1 ELSE ops
    /\ ret' = NoRet
    /\ UNCHANGED <<calls, t, stdinPos>>
    /\ UNCHANGED aux

-----------------------------------------------------------------------------
(* Calls on the Result.  A traversal is one step, except that of the        *)
(* concurrent list with more than one worker, whose children interleave.     *)

Stepwise(v) == v.root = "concurrent" /\ v.concurrency > 1

Method(op, res, tr) ==
    CASE op = "Visit"  -> Visit(res, tr)
      [] op = "Infos"  -> Infos(res, tr)
      [] op = "Object" -> Object(res, tr)
      [] OTHER         -> Watch(res, tr)

\* the method op returns, tr being the traversal it made if it made one
Complete(op, tr) ==
    LET m == Method(op, r, tr)
    IN  /\ r' = m.r
        /\ ret' = m.ret
        /\ stdinPos' = IF m.traversed THEN tr.pos ELSE stdinPos
        /\ hist' = [hist EXCEPT
                      !.visits = IF m.traversed /\ ~t.active THEN @ + 1 ELSE @,
                      !.infoVisits = IF m.traversed /\ ~t.active /\ op # "Visit"
                                     THEN @ + 1 ELSE @,
                      !.traversed = m.traversed,
                      !.visited = IF m.traversed THEN tr.visited ELSE @,
                      !.travErr = IF m.traversed THEN tr.err ELSE @,
                      !.yielded = IF m.traversed THEN tr.yielded ELSE @,
                      !.prev = ret]

Call(op, abortAt) ==
    /\ pc = "result"
    /\ ops < MaxOps
    /\ ~t.active
    /\ ops' = ops + 1
    /\ LET tr == VisitAll(r.visitor, stdinPos, abortAt)
           n == Len(r.visitor.children)
       IN  IF Method(op, r, tr).traversed /\ Stepwise(r.visitor)
           THEN /\ t' = [TIdle EXCEPT !.active = TRUE, !.op = op, !.abortAt = abortAt,
                                      !.status = [i \in 1..n |-> "pending"],
                                      !.idx = [i \in 1..n |-> 0],
                                      !.buf = [i \in 1..n |-> <<>>],
                                      !.snap = [i \in 1..n |-> <<>>],
                                      !.reading = [i \in 1..n |-> FALSE],
                                      !.cerr = [i \in 1..n |-> NoErr]]
                /\ hist' = [hist EXCEPT !.visits = @ + 1,
                                        !.infoVisits = IF op # "Visit" THEN @ + 1 ELSE @]
                /\ UNCHANGED <<r, ret, stdinPos>>
           ELSE /\ Complete(op, tr)
                /\ t' = t
    /\ UNCHANGED <<b, pc, calls>>
    /\ UNCHANGED aux

CallResourceMapping ==
    /\ pc = "result"
    /\ ops < MaxOps
    /\ ~t.active
    /\ ops' = ops + 1
    /\ ret' = ResourceMapping(r)
    /\ hist' = [hist EXCEPT !.traversed = FALSE, !.prev = ret]
    /\ UNCHANGED <<b, r, pc, calls, t, stdinPos>>
    /\ UNCHANGED aux

\* the matchers a caller gives IgnoreErrors, each as the set of the errors it
\* accepts: a failure to decode, and the errors of an empty or nameless request
IgnoredErrors ==
    {{DecodeError("bad.yaml")},
     {missingResourceError, "resource(s) were provided, but no name was specified"}}

CallIgnoreErrors ==
    /\ pc = "result"
    /\ ops < MaxOps
    /\ ~t.active
    /\ \E fns \in IgnoredErrors : r' = IgnoreErrors(r, fns)
    /\ ops' = ops + 1
    /\ ret' = Ret("IgnoreErrors", NoErr, TRUE, <<>>, NoObject, "")
    /\ hist' = [hist EXCEPT !.traversed = FALSE, !.prev = ret]
    /\ UNCHANGED <<b, pc, calls, t, stdinPos>>
    /\ UNCHANGED aux

Running == {i \in 1..Len(t.status) : t.status[i] = "running"}

Pending == {i \in 1..Len(t.status) : t.status[i] = "pending"}

\* the child's Visit returns err: the group keeps the first error
ChildDone(tt, i, err) ==
    [tt EXCEPT !.status[i] = "done",
               !.firstErr = IF @ = NoErr THEN err ELSE @]

\* faulty variant: a TDispatch that hands a free worker the first child that
\* has not finished, whether a worker already visits it or not
TDispatch_AnyUnfinished ==
    /\ t.active
    /\ Pending \cup Running # {}
    /\ Cardinality(Running) < r.visitor.concurrency
    /\ t.firstErr = NoErr
    /\ LET i == CHOOSE k \in Pending \cup Running : \A j \in Pending \cup Running : k <= j
       IN  t' = [t EXCEPT !.status[i] = "running", !.order = Append(@, i)]
    /\ UNCHANGED <<b, r, pc, calls, ops, stdinPos, ret, hist>>
    /\ UNCHANGED aux

\* the group starts the next child when a worker is free and no child failed
TDispatch ==
    /\ t.active
    /\ Pending # {}
    /\ Cardinality(Running) < r.visitor.concurrency
    /\ t.firstErr = NoErr
    /\ LET i == CHOOSE k \in Pending : \A j \in Pending : k <= j
       IN  t' = [t EXCEPT !.status[i] = "running", !.order = Append(@, i)]
    /\ UNCHANGED <<b, r, pc, calls, ops, stdinPos, ret, hist>>
    /\ UNCHANGED aux

\* a running child decodes its next object and hands it up the layers
TStep(i) ==
    /\ t.active
    /\ i \in Running
    /\ t.buf[i] = <<>>
    /\ ~t.reading[i]
    /\ LET child == r.visitor.children[i]
           ci == ChildItems(child, i, stdinPos)
           k == IF child.kind = "stdin" THEN 1 ELSE t.idx[i] + 1
           res == Through(r.visitor.layers, 1, ci.items[k], Len(t.seen), t.abortAt)
           racy == t.op # "Visit"
           stepped == [t EXCEPT !.idx[i] = @ + 1,
                                !.seen = @ \o res.out,
                                !.out = IF racy THEN @ ELSE @ \o res.out,
                                !.buf[i] = IF racy THEN res.out ELSE <<>>,
                                !.cerr[i] = res.err]
       IN  IF ci.err # NoErr
           THEN t' = ChildDone(t, i, ci.err) /\ stdinPos' = stdinPos
           ELSE IF k > Len(ci.items)
           THEN t' = ChildDone(t, i, NoErr) /\ stdinPos' = stdinPos
           ELSE /\ t' = IF res.err # NoErr /\ stepped.buf[i] = <<>>
                        THEN ChildDone(stepped, i, res.err) ELSE stepped
                /\ stdinPos' = IF child.kind = "stdin" THEN stdinPos + 1 ELSE stdinPos
    /\ UNCHANGED <<b, r, pc, calls, ops, ret, hist>>
    /\ UNCHANGED aux

\* the function of Infos appends to a slice the children share: it reads the
\* slice, then writes the slice with the item added
TRead(i) ==
    /\ t.active
    /\ i \in Running
    /\ t.buf[i] # <<>>
    /\ ~t.reading[i]
    /\ t' = [t EXCEPT !.snap[i] = t.out, !.reading[i] = TRUE]
    /\ UNCHANGED <<b, r, pc, calls, ops, stdinPos, ret, hist>>
    /\ UNCHANGED aux

TWrite(i) ==
    /\ t.active
    /\ i \in Running
    /\ t.reading[i]
    /\ LET wrote == [t EXCEPT !.out = Append(t.snap[i], Head(t.buf[i])),
                              !.buf[i] = Tail(@), !.reading[i] = FALSE,
                              !.snap[i] = <<>>]
       IN  t' = IF wrote.buf[i] = <<>> /\ t.cerr[i] # NoErr
                THEN ChildDone(wrote, i, t.cerr[i]) ELSE wrote
    /\ UNCHANGED <<b, r, pc, calls, ops, stdinPos, ret, hist>>
    /\ UNCHANGED aux

\* Wait returns: no child runs and none is left to start
TFinish ==
    /\ t.active
    /\ Running = {}
    /\ Pending = {} \/ t.firstErr # NoErr
    /\ Complete(t.op, [out |-> t.out, err |-> VisitError(r.visitor, t.firstErr, <<>>),
                       pos |-> stdinPos, visited |-> t.order, yielded |-> t.seen])
    /\ t' = TIdle
    /\ UNCHANGED <<b, pc, calls, ops>>
    /\ UNCHANGED aux

-----------------------------------------------------------------------------
(* The calls a caller makes, with the arguments it gives *)

\* the "-" among the filenames FilenameParam processes
Dashes(o) ==
    IF validate(o) # <<>> THEN 0
    ELSE Cardinality({k \in 1..Len(o.Filenames) : o.Filenames[k] = "-"})

\* a directory is among the filenames FilenameParam processes
NamesDir(o) ==
    validate(o) = <<>> /\ \E k \in 1..Len(o.Filenames) : Stat(o.Filenames[k]) = "dir"

\* the filenames FilenameParam processes are given recursively, or one of
\* them is a pattern that matches files
HowGiven(o) ==
    IF validate(o) # <<>> THEN {}
    ELSE (IF o.Recursive /\ \E k \in 1..Len(o.Filenames) :
                                ~IsURL(o.Filenames[k]) /\ o.Filenames[k] # "-"
          THEN {"recursive"} ELSE {})
         \cup (IF \E k \in 1..Len(o.Filenames) :
                       /\ Stat(o.Filenames[k]) = "missing"
                       /\ ~IsURL(o.Filenames[k]) /\ o.Filenames[k] # "-"
                       /\ Glob(o.Filenames[k]) # <<>>
                THEN {"pattern"} ELSE {})

FilenameParamWith(inputs) ==
    \E enforceNamespace \in BOOLEAN, o \in inputs :
        Configure(FilenameParam(b, enforceNamespace, o), Dashes(o), NamesDir(o), HowGiven(o))

ResourceTypeOrNameArgsWith(inputs) ==
    \E allowEmptySelector \in BOOLEAN, args \in inputs :
        Config(ResourceTypeOrNameArgs(b, allowEmptySelector, args))

\* any caller: every configuration method, in any order
AnyFilenames ==
    {Options(<<"-">>, "", FALSE), Options(<<"a.yaml">>, "", FALSE),
     Options(<<"dir2">>, "", TRUE), Options(<<"missing">>, "", FALSE),
     Options(<<"a.yaml">>, "kdir", FALSE), Options(<<>>, "kdir", FALSE),
     Options(<<"-", "a.yaml", "-">>, "", FALSE)}

AnyArgs ==
    {<<<<"pods">>>>, <<<<"pods">>, <<"p1">>>>, <<<<"pods", "/", "p1">>>>,
     <<<<"pods", "/", "p1", "/", "x">>>>, <<<<"bogus">>, <<"p1">>>>}

ResourceNamesArgs == {<<<<"p1">>>>, <<<<"pods", "/", "p1">>>>, <<<<"a", "/", "b", "/", "c">>>>}

\* one disjunct for each Builder method, and Do
Next ==
    \/ \E e \in {Nil, "caller's error"} : Config(AddError(b, e))
    \/ \E c \in 0..MaxConcurrency : Config(VisitorConcurrency(b, c))
    \/ Config(Unstructured(b))
    \/ Config(WithScheme(b, <<>>))
    \/ Configure(Stdin(b), 1, FALSE, {})
    \/ Configure(StdinInUse(b), 1, FALSE, {})
    \/ FilenameParamWith(AnyFilenames)
    \/ \E p \in {"a.yaml", "dir2", "missing"} :
           Configure(Path(b, FALSE, <<p>>), 0, Stat(p) = "dir", {})
    \/ ResourceTypeOrNameArgsWith(AnyArgs)
    \/ \E names \in ResourceNamesArgs, resource \in {<<>>, <<"pods">>} :
           Config(ResourceNames(b, resource, names))
    \/ Config(NamespaceParam(b, "ns-a"))
    \/ Config(DefaultNamespace(b))
    \/ \E a \in BOOLEAN : Config(AllNamespaces(b, a))
    \/ Config(RequireNamespace(b))
    \/ Config(Flatten(b))
    \/ Config(Latest(b))
    \/ Config(RequireObject(b, FALSE))
    \/ Config(ContinueOnError(b))
    \/ Config(SingleResourceType(b))
    \/ \E a \in BOOLEAN : Config(SelectAllParam(b, a))
    \/ \E sel \in {"", "app=x"} : Config(LabelSelectorParam(b, sel))
    \/ \E sel \in {"", "f=1"} : Config(FieldSelectorParam(b, sel))
    \/ Config(Subresource(b, "status"))
    \/ CallDo

Spec == Init /\ [][Next]_vars

\* a caller that selects the mapper, names its input once, and uses the Result
ResultFilenames ==
    {Options(<<"a.yaml">>, "", FALSE), Options(<<"b.yaml">>, "", FALSE),
     Options(<<"a.yaml", "bad.yaml", "c.yaml">>, "", FALSE),
     Options(<<"bad.yaml", "a.yaml">>, "", FALSE),
     Options(<<"a.yaml", "b.yaml">>, "", FALSE),
     Options(<<"list.yaml">>, "", FALSE), Options(<<"empty.yaml">>, "", FALSE),
     Options(<<"dir1">>, "", FALSE), Options(<<"dir2">>, "", FALSE),
     Options(<<"a.yaml">>, "", TRUE), Options(<<"c*.yaml">>, "", FALSE),
     Options(<<"-">>, "", FALSE)}

ResultArgs ==
    {<<<<"pods">>>>, <<<<"pods">>, <<"p1">>>>, <<<<"pods">>, <<"p1">>, <<"p2">>>>,
     <<<<"pods">>, <<"gone">>>>, <<<<"nodes", "/", "n1">>>>,
     <<<<"pods", "/", "p1">>, <<"nodes", "/", "n1">>>>}

Unconfigured == b.paths = <<>> /\ b.resources = <<>> /\ b.resourceTuples = <<>> /\ b.errs = <<>>

\* the caller selected the mapper and may make another Builder call
Ready == b.mapper # "nil" /\ calls < MaxSetup

NextResult ==
    \/ b.mapper = "nil" /\ Config(Unstructured(b))
    \/ Ready /\ Unconfigured /\ FilenameParamWith(ResultFilenames)
    \/ Ready /\ Unconfigured /\ ResourceTypeOrNameArgsWith(ResultArgs)
    \/ Ready /\ \E c \in {1, MaxConcurrency} : Config(VisitorConcurrency(b, c))
    \/ Ready /\ Config(NamespaceParam(b, "ns-a"))
    \/ Ready /\ Config(DefaultNamespace(b))
    \/ Ready /\ Config(Flatten(b))
    \/ Ready /\ Config(RequireObject(b, FALSE))
    \/ Ready /\ Config(ContinueOnError(b))
    \/ b.mapper # "nil" /\ CallDo
    \/ \E abortAt \in 0..1 : Call("Visit", abortAt)
    \/ Call("Infos", 0)
    \/ Call("Object", 0)
    \/ Call("Watch", 0)
    \/ CallResourceMapping
    \/ CallIgnoreErrors
    \/ TDispatch
    \/ \E i \in 1..MaxPaths : TStep(i)
    \/ \E i \in 1..MaxPaths : TRead(i)
    \/ \E i \in 1..MaxPaths : TWrite(i)
    \/ TFinish

SpecResult == Init /\ [][NextResult]_vars

\* a caller that has chosen unstructured objects, names resources by type,
\* name and selector, calls Do once and asks the Result for its mapping once;
\* the REST mapper function it constructed the Builder with works or fails
InitResolve ==
    /\ \E restMapper \in {"ok", "err"} : b = Unstructured(newBuilder(restMapper, "ok"))
    /\ r = NewResult("none", FALSE, FALSE)
    /\ pc = "config"
    /\ calls = 1
    /\ ops = 0
    /\ t = TIdle
    /\ stdinPos = 0
    /\ ret = NoRet
    /\ hist = NoHist
    /\ w = NewWarningWriter([Deduplicate |-> FALSE, Color |-> FALSE])
    /\ crt = NewRoundTripper(<<>>)
    /\ ce = NewCachingExpander
    /\ pl = NewPluginRun({})
    /\ mv = NewMatchVersionFlags

ResolveArgs ==
    {<<<<"pods">>>>, <<<<"pods", ",", "nodes">>>>, <<<<"pods", ",", "po">>>>,
     <<<<"pods", ",", "bogus">>>>, <<<<"bogus", ",", "flaky">>>>,
     <<<<"flaky">>>>, <<<<"down">>>>, <<<<"stale">>>>,
     <<<<"pods">>, <<"p1">>>>, <<<<"nodes">>, <<"n1">>>>,
     <<<<"pods", ",", "po">>, <<"p1">>>>,
     <<<<"pods", "/", "p1">>>>, <<<<"pods", "/", "p1">>, <<"nodes", "/", "n1">>>>,
     <<<<"pods", "/", "p1">>, <<"po", "/", "p2">>>>,
     <<<<"pods", "/", "p1", "/", "x">>>>}

ResolveNames ==
    {<<<<"p1">>>>, <<<<"nodes", "/", "n1">>>>, <<<<"p1">>, <<"a", "/", "b", "/", "c">>>>}

ResolveTypes == {<<"pods">>, <<"nodes">>, <<"po", "bogus">>}

NextResolve ==
    \/ ResourceTypeOrNameArgsWith(ResolveArgs)
    \/ \E names \in ResolveNames, resource \in {<<>>, <<"pods">>} :
           Config(ResourceNames(b, resource, names))
    \/ \E types \in ResolveTypes : Config(ResourceTypes(b, types))
    \/ \E sel \in {"", "app=x"} : Config(LabelSelectorParam(b, sel))
    \/ \E sel \in {"", "f=1"} : Config(FieldSelectorParam(b, sel))
    \/ \E a \in BOOLEAN : Config(SelectAllParam(b, a))
    \/ Config(SingleResourceType(b))
    \/ Config(NamespaceParam(b, "ns-a"))
    \/ \E a \in BOOLEAN : Config(AllNamespaces(b, a))
    \/ Config(Subresource(b, "status"))
    \/ pc = "config" /\ CallDo
    \/ ret = NoRet /\ CallResourceMapping

SpecResolve == InitResolve /\ [][NextResolve]_vars

\* the Builder and the Result of a run that does not use them
BuilderUnused ==
    /\ b = newBuilder("ok", "ok")
    /\ r = NewResult("none", FALSE, FALSE)
    /\ pc = "config"
    /\ calls = 0
    /\ ops = 0
    /\ t = TIdle
    /\ stdinPos = 0
    /\ ret = NoRet
    /\ hist = NoHist

\* the goroutines of a command hand the Warning headers of their responses
\* to one warning writer, and the command asks for the count
WarningHeaders ==
    {[code |-> 299, message |-> "a"], [code |-> 299, message |-> "b"],
     [code |-> 299, message |-> ""], [code |-> 199, message |-> "c"]}

InitWarnings ==
    /\ BuilderUnused
    /\ \E deduplicate \in BOOLEAN, color \in BOOLEAN :
           w = NewWarningWriter([Deduplicate |-> deduplicate, Color |-> color])
    /\ crt = NewRoundTripper(<<>>)
    /\ ce = NewCachingExpander
    /\ pl = NewPluginRun({})
    /\ mv = NewMatchVersionFlags

NextWarnings ==
    \/ \E p \in Handlers, h \in WarningHeaders : HandleWarningHeader(p, h.code, h.message)
    \/ \E p \in Handlers : Lock(p)
    \/ \E p \in Handlers : Lookup(p)
    \/ \E p \in Handlers : Write(p)
    \/ \E p \in Handlers : Unlock(p)
    \/ WarningCount

SpecWarnings == InitWarnings /\ [][NextWarnings]_vars

\* a round tripper, constructed with or without headers, parses the headers
\* of commands and sends requests
Commands == {"root", "create", "secret", "generic", "version", "anonymous"}

Uids == {<<"uid-1">>, <<"uid-2">>}

InitHeaders ==
    /\ BuilderUnused
    /\ w = NewWarningWriter([Deduplicate |-> FALSE, Color |-> FALSE])
    /\ \E headers \in {<<>>, "X-Custom" :> <<"v">>} : crt = NewRoundTripper(headers)
    /\ ce = NewCachingExpander
    /\ pl = NewPluginRun({})
    /\ mv = NewMatchVersionFlags

NextHeaders ==
    \/ \E cmd \in Commands \cup {Nil}, uid \in Uids : ParseCommandHeaders(cmd, uid)
    \/ \E header \in {<<>>, "Kubectl-Command" :> <<"stale">>} : RoundTrip(header)

SpecHeaders == InitHeaders /\ [][NextHeaders]_vars

\* the goroutines of a command ask the Builder's caching wrapper for the
\* category expander
InitExpander ==
    /\ BuilderUnused
    /\ w = NewWarningWriter([Deduplicate |-> FALSE, Color |-> FALSE])
    /\ crt = NewRoundTripper(<<>>)
    /\ ce = NewCachingExpander
    /\ pl = NewPluginRun({})
    /\ mv = NewMatchVersionFlags

NextExpander ==
    \/ \E p \in Callers : ToCategoryExpander(p)
    \/ \E p \in Callers, ok \in BOOLEAN : delegate(p, ok)
    \/ \E p \in Callers : Cache(p)

SpecExpander == InitExpander /\ [][NextExpander]_vars

\* kubectl is started with arguments that name no built-in command, with
\* some plugins on the PATH
PluginArgs == {<<"foo">>, <<"bar">>, <<"my", "-", "plugin">>, <<"-", "v">>}

RECURSIVE ArgLists(_)
ArgLists(n) ==
    IF n = 0 THEN {<<>>}
    ELSE {Append(l, a) : l \in ArgLists(n - 1), a \in PluginArgs}

PluginPaths ==
    {{},
     {<<"kubectl", "-", "foo">>},
     {<<"kubectl", "-", "foo">>, <<"kubectl", "-", "foo", "-", "bar">>},
     {<<"kubectl", "-", "my", "_", "plugin">>, <<"kubectl", "-", "bar", "-", "foo">>}}

InitPlugin ==
    /\ BuilderUnused
    /\ w = NewWarningWriter([Deduplicate |-> FALSE, Color |-> FALSE])
    /\ crt = NewRoundTripper(<<>>)
    /\ ce = NewCachingExpander
    /\ \E onPath \in PluginPaths : pl = NewPluginRun(onPath)
    /\ mv = NewMatchVersionFlags

NextPlugin ==
    \/ \E n \in 1..MaxArgs, exactMatch \in BOOLEAN :
           \E cmdArgs \in ArgLists(n) : HandlePluginCommand(cmdArgs, exactMatch)
    \/ FindBinary
    \/ \E ok \in BOOLEAN : Execute(ok)

SpecPlugin ==
    /\ InitPlugin /\ [][NextPlugin]_vars
    /\ WF_vars(FindBinary)
    /\ WF_vars(\E ok \in BOOLEAN : Execute(ok))

\* The calls of the three methods of one MatchVersionFlags by concurrent
\* goroutines, and the changes of its flag.
InitMatch ==
    /\ BuilderUnused
    /\ w = NewWarningWriter([Deduplicate |-> FALSE, Color |-> FALSE])
    /\ crt = NewRoundTripper(<<>>)
    /\ ce = NewCachingExpander
    /\ pl = NewPluginRun({})
    /\ mv = NewMatchVersionFlags

NextMatch ==
    \/ \E value \in BOOLEAN : AddFlags(value)
    \/ \E p \in Getters, method \in Methods : checkMatchingServerVersion(p, method)
    \/ \E p \in Getters, outcome \in CheckOutcomes : MatchesServerVersion(p, outcome)
    \/ \E p \in Getters, ok \in BOOLEAN : ToDelegate(p, ok)

SpecMatch == InitMatch /\ [][NextMatch]_vars

\* what hist.how records of a selection of the mapper: the first one, or
\* one made on a Builder that has a mapper
Selecting(selection) ==
    {selection \o (IF b.mapper # "nil" THEN " again" ELSE " first")}

\* a caller that selects the mapper any number of times, with and without
\* versions to decode, among other calls
NextSelect ==
    \/ Configure(Unstructured(b), 0, FALSE, Selecting("unstructured"))
    \/ \E decodingVersions \in {<<>>, <<"v1">>} :
           Configure(WithScheme(b, decodingVersions), 0, FALSE,
                     Selecting(IF decodingVersions = <<>> THEN "scheme" ELSE "scheme v1"))
    \/ \E e \in {Nil, "caller's error"} : Config(AddError(b, e))
    \/ Config(NamespaceParam(b, "ns-a"))
    \/ Config(Flatten(b))
    \/ Config(ContinueOnError(b))
    \/ Configure(Stdin(b), 1, FALSE, {})
    \/ CallDo

SpecSelect == Init /\ [][NextSelect]_vars

\* A caller of ReplaceAliases on a Builder made with a category expander
\* function that works, one that fails, or none; ret holds the input and
\* what the call returned.
AliasInputs ==
    {<<>>, <<"pods">>, <<"all">>, <<"pods", ",", "nodes">>, <<"pods", ",", "all">>,
     <<"all", ",", "pods">>, <<"po", ",", "all", ",", "nodes">>}

InitAliases ==
    /\ \E categoryExpander \in {"ok", "err", "nil"} : b = newBuilder("ok", categoryExpander)
    /\ r = NewResult("none", FALSE, FALSE)
    /\ pc = "config"
    /\ calls = 0
    /\ ops = 0
    /\ t = TIdle
    /\ stdinPos = 0
    /\ ret = NoRet
    /\ hist = NoHist
    /\ w = NewWarningWriter([Deduplicate |-> FALSE, Color |-> FALSE])
    /\ crt = NewRoundTripper(<<>>)
    /\ ce = NewCachingExpander
    /\ pl = NewPluginRun({})
    /\ mv = NewMatchVersionFlags

CallReplaceAliases(input) ==
    /\ pc = "config"
    /\ calls < MaxCalls
    /\ LET ra == ReplaceAliases(b, input)
       IN  /\ b' = ra.b
           /\ ret' = Ret("ReplaceAliases", NoErr, FALSE, <<input, ra.out>>, NoObject, "")
    /\ calls' = calls + 1
    /\ UNCHANGED <<r, pc, ops, t, stdinPos, hist>>
    /\ UNCHANGED aux

NextAliases ==
    \/ \E input \in AliasInputs : CallReplaceAliases(input)
    \/ \E e \in {Nil, "caller's error"} : Config(AddError(b, e))
    \/ Config(Unstructured(b))
    \/ ResourceTypeOrNameArgsWith({<<<<"pods", ",", "all">>>>, <<<<"all">>, <<"p1">>>>})

SpecAliases == InitAliases /\ [][NextAliases]_vars

-----------------------------------------------------------------------------
(* Properties.  C1 and C2 are about the Builder and are checked under Spec; *)
(* the others are about the Result and are checked under SpecResult.        *)

IsPrefix(s1, s2) == Len(s1) <= Len(s2) /\ SubSeq(s2, 1, Len(s1)) = s1

\* the sequence 1, ..., n
UpTo(n) == [i \in 1..n |-> i]

\* a call on the Result has returned, and it was op
Returned(op) == pc = "result" /\ ~t.active /\ ret.op = op

\* C1: an error a configuration call recorded is never removed by a later
\* call, and a Do() on a Builder with recorded errors returns a Result whose
\* Err() is all the recorded errors, with no visitor and no branch evaluated.
C1_RecordedErrorsAreFatal ==
    [][/\ IsPrefix(b.errs, b'.errs)
       /\ (hist'.dos > hist.dos /\ pc' = "result" /\ b.errs # <<>>) =>
              /\ Err(r') = b.errs
              /\ r'.visitor = NoVisitor
              /\ r'.sources = <<>>
              /\ r'.branch = "none"]_vars

C1_Witness ==
    /\ pc = "result"
    /\ Len(b.errs) >= 2
    /\ Len(b.paths) > 0
    /\ Err(r) = b.errs
    /\ r.branch = "none"

\* C2: when standard input was claimed two or more times (Stdin, StdinInUse
\* or a "-" filename), whatever the other calls, the error of the Result Do()
\* returns contains StdinMultiUseError.
C2_StdinClaimedTwiceFails ==
    (pc = "result" /\ hist.stdinClaims >= 2) => InSeq(StdinMultiUseError, Err(r))

C2_Witness ==
    /\ pc = "result"
    /\ hist.stdinClaims >= 2
    /\ Len(Err(r)) >= 2
    /\ InSeq(StdinMultiUseError, Err(r))
    /\ b.flatten

\* C3: two consecutive Infos() calls return the identical list both times,
\* whatever the first traversal yielded.
C3_InfosTwiceIdentical ==
    (Returned("Infos") /\ hist.prev.op = "Infos") => ret.items = hist.prev.items

\* C4: over any sequence of Infos(), Object() and Watch() calls on one Result
\* the visitor is traversed at most once, and once that traversal is complete
\* the list is memoized.
C4_TraversedAtMostOnce ==
    /\ hist.infoVisits <= 1
    /\ (pc = "result" /\ hist.infoVisits = 1 /\ ~t.active) => ~r.info.nil

C4_Witness ==
    /\ Returned("Object")
    /\ hist.prev.op = "Infos"
    /\ hist.prev.err = NoErr
    /\ ret.err = NoErr
    /\ ~hist.traversed
    /\ hist.infoVisits = 1

\* C5: a Result whose error was stored by Do() is never traversed, its
\* sources and the caller's function are never reached, and Visit, Infos,
\* Object, ResourceMapping and Watch each return that error and nothing else.
C5_StoredErrorShortCircuits ==
    (pc = "result" /\ hist.doErr # NoErr) =>
        /\ ~t.active
        /\ hist.visits = 0
        /\ hist.yielded = <<>>
        /\ hist.visited = <<>>
        /\ ret.op \in {"Visit", "Infos", "Object", "ResourceMapping", "Watch"} =>
               /\ ret.err = hist.doErr
               /\ ret.items = <<>>
               /\ ret.obj = NoObject
               /\ ret.via = ""

C5_Witness ==
    /\ Returned("Watch")
    /\ hist.prev.op = "ResourceMapping"
    /\ hist.doErr # NoErr
    /\ ret.err = hist.doErr
    /\ hist.prev.err = hist.doErr

-----------------------------------------------------------------------------
(* What the sources of a path-based Result are expected to give, computed    *)
(* from the files themselves.                                                *)

FileSources ==
    r.branch = "paths" /\ \A i \in 1..Len(r.sources) : r.sources[i].kind = "file"

\* the sources that fail to decode
Failing == {i \in 1..Len(r.sources) : FileContent(r.sources[i].name).bad}

FirstFailing == CHOOSE i \in Failing : \A j \in Failing : i <= j

\* the number of items the objects give, a list counting for its members
\* when lists are flattened
RECURSIVE Count(_, _)
Count(docs, flattened) ==
    IF docs = <<>> THEN 0
    ELSE (IF flattened /\ Head(docs).isList THEN Len(Head(docs).members) ELSE 1)
         + Count(Tail(docs), flattened)

\* the source of each expected item, for the first n sources in order
RECURSIVE ExpectedSrc(_)
ExpectedSrc(n) ==
    IF n = 0 THEN <<>>
    ELSE ExpectedSrc(n - 1)
         \o (IF n \in Failing THEN <<>>
             ELSE [k \in 1..Count(FileContent(r.sources[n].name).docs, b.flatten) |-> n])

\* the decode errors of the first n sources, in order
RECURSIVE ExpectedErrs(_)
ExpectedErrs(n) ==
    IF n = 0 THEN <<>>
    ELSE ExpectedErrs(n - 1)
         \o (IF n \in Failing THEN <<DecodeError(r.sources[n].name)>> ELSE <<>>)

SrcOf(items) == [k \in 1..Len(items) |-> items[k].src]

\* the objects of a file as the hooks see them: a list stands for its
\* members when lists are flattened
RECURSIVE Members(_, _)
Members(docs, flattened) ==
    IF docs = <<>> THEN <<>>
    ELSE (IF flattened /\ Head(docs).isList THEN Head(docs).members ELSE <<Head(docs)>>)
         \o Members(Tail(docs), flattened)

\* an object of source i names a namespace other than ns
OtherNamespace(i, ns) ==
    \E k \in 1..Len(Members(FileContent(r.sources[i].name).docs, b.flatten)) :
        Members(FileContent(r.sources[i].name).docs, b.flatten)[k].ns \notin {"", ns}

\* no source fails for another reason than decoding
OnlyDecodeFailures ==
    ~b.requireNamespace \/ \A i \in 1..Len(r.sources) : ~OtherNamespace(i, b.namespace)

\* Infos() has returned from a traversal of file sources
InfosOfFiles == Returned("Infos") /\ hist.traversed /\ FileSources /\ OnlyDecodeFailures

ContinueOnErrorVisitsAll ==
    (InfosOfFiles /\ b.continueOnError) =>
        /\ hist.visited = UpTo(Len(r.sources))
        /\ SrcOf(ret.items) = ExpectedSrc(Len(r.sources))
        /\ hist.travErr = ExpectedErrs(Len(r.sources))
        /\ ret.err = FilterOut(ExpectedErrs(Len(r.sources)), r.ignoreErrors)

-----------------------------------------------------------------------------
(* Namespaces *)

MismatchError == "the namespace from the provided object does not match the namespace"

\* Infos() has returned from a traversal of files of which one holds an
\* object of another namespace than the Builder's "ns-a"
InfosOfOtherNamespace ==
    /\ Returned("Infos")
    /\ hist.traversed
    /\ FileSources
    /\ Failing = {}
    /\ b.namespace = "ns-a"
    /\ \E i \in 1..Len(r.sources) : OtherNamespace(i, "ns-a")

EnforcedNamespaceFails ==
    (InfosOfOtherNamespace /\ b.requireNamespace) =>
        /\ InSeq(MismatchError, ret.err)
        /\ \A k \in 1..Len(hist.yielded) : hist.yielded[k].ns \in {"", "ns-a"}

-----------------------------------------------------------------------------
(* Lists and single objects *)

\* what the i-th source gives before any layer
Upstream(i) == ChildItems(r.sources[i], i, 0).items

\* Infos() has returned without error from a traversal of a flattening
\* Builder's visitor, standard input not being a source
InfosFlattened ==
    /\ Returned("Infos")
    /\ hist.traversed
    /\ hist.travErr = NoErr
    /\ b.flatten
    /\ \A i \in 1..Len(r.sources) : r.sources[i].kind # "stdin"

\* C8: with Flatten() a list of k members gives exactly k items to the caller
\* and the list itself is never given, in every branch.
C8_FlattenYieldsMembers ==
    InfosFlattened =>
        /\ \A k \in 1..Len(hist.yielded) : ~hist.yielded[k].isList
        /\ \A i \in 1..Len(r.sources) :
               Cardinality({k \in 1..Len(hist.yielded) : hist.yielded[k].src = i})
                   = Count(Upstream(i), TRUE)

C8_Witness ==
    /\ InfosFlattened
    /\ r.branch = "paths"
    /\ Len(r.sources) = 1
    /\ Upstream(1)[1].isList
    /\ Len(Upstream(1)[1].members) = 2
    /\ Len(ret.items) = 2

\* Object() has returned an object
ObjectReturned == Returned("Object") /\ ret.err = NoErr

\* C9: Object() gives the one item of a single bare name as it is, and the
\* one item that came from a directory wrapped in a list.
C9_SingleItemFolding ==
    (/\ ObjectReturned
     /\ Len(r.info.items) = 1
     /\ r.info.items[1].hasObj
     /\ ~r.info.items[1].isList) =>
        /\ r.branch = "name" => ret.obj.kind = "object"
        /\ (r.branch = "paths" /\ hist.dirExpanded) => ret.obj.kind = "list"

\* the objects all report one resource version
SameVersion(objs) == objs # <<>> /\ \A j, k \in 1..Len(objs) : objs[j].rv = objs[k].rv

\* C10: Object() gives the single object as it is exactly when one Info
\* carries an object and singleItemImplied is set or the object is a list;
\* otherwise a list of all the objects in traversal order, whose version is
\* the resource version all of them report, or blank.
C10_ObjectOrList ==
    ObjectReturned =>
        LET objs == SelectSeq(r.info.items, LAMBDA i : i.hasObj)
        IN  IF Len(objs) = 1 /\ (r.singleItemImplied \/ objs[1].isList)
            THEN ret.obj.kind = "object" /\ ret.obj.items = objs
            ELSE /\ ret.obj.kind = "list"
                 /\ ret.obj.items = objs
                 /\ ret.obj.version = IF SameVersion(objs) THEN objs[1].rv ELSE ""

C10_Witness ==
    /\ ObjectReturned
    /\ ret.obj.kind = "list"
    /\ Len(ret.obj.items) = 2
    /\ ret.obj.items[1].rv # ret.obj.items[2].rv
    /\ ret.obj.version = ""

-----------------------------------------------------------------------------
(* Resource arguments, selectors and type resolution *)

\* the number of slashes in an argument
SlashCount(arg) == Cardinality({i \in 1..Len(arg) : arg[i] = "/"})

\* the arguments offered to ResourceNames and to ResourceTypeOrNameArgs
OfferedNames == ResolveNames \cup {<<<<"pods", "/", "p1">>>>, <<<<"a", "/", "b", "/", "c", "/", "d">>>>}

OfferedArgs == ResolveArgs \cup AnyArgs \cup {<<<<"pods", ",", "po">>, <<"a", "/", "b", "/", "c">>>>}

\* Do has returned a Result that stands for no request: an error, no
\* visitor, no type handed to mappingFor and no client asked for
FailedOffline ==
    /\ Err(r) # NoErr
    /\ r.visitor = NoVisitor
    /\ r.lookups = <<>>
    /\ r.clients = 0

\* C11 (as stated): an argument with no slash or with two or more slashes is
\* always rejected with an error recorded by the call it is offered to.
C11_NoOrManySlashesAlwaysRejected ==
    /\ \A names \in OfferedNames, resource \in {<<>>, <<"pods">>} :
           (\E i \in 1..Len(names) : SlashCount(names[i]) # 1) =>
               Len(ResourceNames(b, resource, names).errs) > Len(b.errs)
    /\ \A args \in OfferedArgs, allowEmptySelector \in BOOLEAN :
           (\E i \in 1..Len(args) : SlashCount(args[i]) # 1) =>
               Len(ResourceTypeOrNameArgs(b, allowEmptySelector, args).errs) > Len(b.errs)

\* C11 (amended): an argument with two or more slashes offered to
\* ResourceNames or ResourceTypeOrNameArgs always makes the call record an
\* error, and a Do() on a Builder with a recorded error fails with no type
\* handed to mappingFor and no client asked for.
C11_ManySlashesAlwaysRejected ==
    /\ \A names \in OfferedNames, resource \in {<<>>, <<"pods">>} :
           (\E i \in 1..Len(names) : SlashCount(names[i]) >= 2) =>
               Len(ResourceNames(b, resource, names).errs) > Len(b.errs)
    /\ \A args \in OfferedArgs, allowEmptySelector \in BOOLEAN :
           (\E i \in 1..Len(args) : SlashCount(args[i]) >= 2) =>
               Len(ResourceTypeOrNameArgs(b, allowEmptySelector, args).errs) > Len(b.errs)
    /\ (pc = "result" /\ b.errs # <<>>) => FailedOffline

C11_Witness ==
    /\ pc = "result"
    /\ InSeq("arguments in resource/name form may not have more than one slash", b.errs)
    /\ Len(b.resourceTuples) > 0
    /\ FailedOffline

\* Do has returned the Result of the selector branch
DoBySelector == pc = "result" /\ r.branch = "selector"

\* C12: a Do() that takes the selector branch with no resource type
\* configured, as a bulk type or in a type/name pair, fails with "at least one
\* resource must be specified to use a selector", with no type handed to
\* mappingFor and no client asked for.
C12_SelectorNeedsAType ==
    (DoBySelector /\ Len(b.resources) = 0 /\ Len(b.resourceTuples) = 0) =>
        /\ Err(r) = <<"at least one resource must be specified to use a selector">>
        /\ r.visitor = NoVisitor
        /\ r.lookups = <<>>
        /\ r.clients = 0

C12_Witness ==
    /\ DoBySelector
    /\ b.labelSelector = "app=x"
    /\ b.namespace = "ns-a"
    /\ Len(b.resources) = 0
    /\ Len(b.resourceTuples) = 0
    /\ Err(r) = <<"at least one resource must be specified to use a selector">>

-----------------------------------------------------------------------------
(* Order and concurrency of the path branch *)

\* the file of Result source i holds one object, which is not a list
SingleObject(i) ==
    /\ ~FileContent(r.sources[i].name).bad
    /\ Len(FileContent(r.sources[i].name).docs) = 1
    /\ ~FileContent(r.sources[i].name).docs[1].isList

\* Infos() has returned on a Result over files named one by one, each
\* holding one object, visited by at most one worker, no object being
\* refused for its namespace
InfosOfSingleFiles ==
    /\ Returned("Infos")
    /\ FileSources
    /\ ~hist.dirExpanded
    /\ "pattern" \notin hist.how
    /\ b.visitorConcurrency <= 1
    /\ OnlyDecodeFailures
    /\ \A i \in 1..Len(r.sources) : SingleObject(i)

Visits(order, i) == Cardinality({k \in 1..Len(order) : order[k] = i})

\* a call has returned from a traversal of the list the path branch builds
\* when ContinueOnError is not set
ListTraversed ==
    /\ pc = "result"
    /\ ~t.active
    /\ hist.traversed
    /\ r.branch = "paths"
    /\ r.visitor.root = "concurrent"

-----------------------------------------------------------------------------
(* Type resolution *)

\* obtaining the REST mapper or one of the queries mappingFor makes of it
\* for the token failed with a discovery error
DiscoveryFailed(bb, token) ==
    \/ bb.restMapperFn = "err"
    \/ FullySpecified(token) /\ KindFor(token, TRUE).err = DiscoveryError
    \/ ~(FullySpecified(token) /\ KindFor(token, TRUE).found)
          /\ KindFor(token, FALSE).err = DiscoveryError
    \/ RESTMapping(token).err = DiscoveryError

\* C15: a Do() whose type resolution ends with "the server doesn't have a
\* resource type" made no query that failed with a discovery error, and a
\* resolution in which obtaining or querying the REST mapper failed with a
\* discovery error ends with that error.
C15_DiscoveryFailureNeverMasked ==
    (pc = "result" /\ r.lookups # <<>>) =>
        /\ Err(r) = <<"the server doesn't have a resource type">> =>
               ~DiscoveryFailed(b, r.lookups[Len(r.lookups)])
        /\ DiscoveryFailed(b, r.lookups[Len(r.lookups)]) => Err(r) = <<DiscoveryError>>

-----------------------------------------------------------------------------
(* Selectors *)

\* the Builder Do() was called on selects by label, by field or everything
\* (Do() turns select-all into the empty label selector)
HasSelector == b.labelSelector # Nil \/ b.fieldSelector # Nil \/ b.selectAll

\* C16: a Do() on a Builder that has a label selector, a field selector or
\* select-all together with bare names or type/name pairs returns a Result
\* with an error and no visitor, no type having been resolved and no client
\* asked for.
C16_SelectorExcludesNames ==
    (pc = "result" /\ HasSelector
       /\ (Len(b.names) > 0 \/ Len(b.resourceTuples) > 0)) => FailedOffline

C16_Witness ==
    /\ pc = "result"
    /\ b.fieldSelector = "f=1"
    /\ b.labelSelector = Nil
    /\ Len(b.names) > 0
    /\ b.errs = <<>>
    /\ Err(r) = <<"name cannot be provided when a selector is specified">>

\* a non-empty label or field selector is set
NonEmptySelector == b.labelSelector \notin {Nil, ""} \/ b.fieldSelector # Nil

\* C17: SelectAllParam(true) on a Builder with a non-empty label or field
\* selector records an error and leaves selectAll false; LabelSelectorParam
\* and FieldSelectorParam with a non-empty value on a Builder with select-all
\* record an error and leave their selector as it was, which is unset or,
\* for the label selector, the empty selector.
C17_SelectAllExcludesSelector ==
    /\ NonEmptySelector =>
           /\ ~b.selectAll
           /\ SelectAllParam(b, TRUE).errs =
                  Append(b.errs, "setting 'all' parameter but found a non empty selector")
           /\ ~SelectAllParam(b, TRUE).selectAll
    /\ b.selectAll =>
           /\ LabelSelectorParam(b, "app=x").errs =
                  Append(b.errs, "found non-empty label selector with previously set 'all' parameter")
           /\ LabelSelectorParam(b, "app=x").labelSelector = b.labelSelector
           /\ b.labelSelector \in {Nil, ""}
           /\ FieldSelectorParam(b, "f=1").errs =
                  Append(b.errs, "found non-empty field selector with previously set 'all' parameter")
           /\ FieldSelectorParam(b, "f=1").fieldSelector = Nil

\* a label selector and a field selector were refused after select-all, and
\* Do() was called on the Builder, which still selects all
C17_Witness ==
    /\ pc = "result"
    /\ b.selectAll
    /\ b.fieldSelector = Nil
    /\ InSeq("found non-empty field selector with previously set 'all' parameter", b.errs)
    /\ InSeq("found non-empty label selector with previously set 'all' parameter", b.errs)

-----------------------------------------------------------------------------
(* Single resource type, bulk types, and the mapping of a Result *)

\* the type tokens Do() resolved: those of the type/name pairs in the tuple
\* branch, the bulk types in the selector and name branches
TypeTokens ==
    IF r.branch = "resource"
    THEN [i \in 1..Len(b.resourceTuples) |-> b.resourceTuples[i].Resource]
    ELSE b.resources

\* every token resolves, and they resolve to more than one distinct type
ManyTypes ==
    /\ \A i \in 1..Len(TypeTokens) : mappingFor(b, TypeTokens[i]).err = Nil
    /\ Cardinality({mappingFor(b, TypeTokens[i]).mapping.resource :
                        i \in 1..Len(TypeTokens)}) > 1

SingleTypeError == <<"you may only specify a single resource type">>

\* C18 (as stated): with SingleResourceType() a Do() that takes the tuple,
\* selector or name branch with types that resolve to more than one distinct
\* type fails with "you may only specify a single resource type".
C18_SingleTypeEnforcedInEveryBranch ==
    (pc = "result" /\ b.singleResourceType /\ r.branch \in {"resource", "selector", "name"}
       /\ ManyTypes) => Err(r) = SingleTypeError

\* C18 (amended): with SingleResourceType() Do() fails with that error in the
\* tuple branch when the pairs' types resolve to more than one distinct type
\* and no bulk type is given, and in the selector branch when more than one
\* bulk type is given and neither a name, a pair nor a subresource is; in the
\* name branch more than one bulk type fails with "you must specify only one
\* resource", with SingleResourceType() or without.
C18_SingleTypeEnforcedWhereResolved ==
    /\ (pc = "result" /\ b.singleResourceType /\ r.branch = "resource"
          /\ Len(b.resources) = 0 /\ ManyTypes) => Err(r) = SingleTypeError
    /\ (pc = "result" /\ b.singleResourceType /\ r.branch = "selector"
          /\ Len(b.names) = 0 /\ Len(b.resourceTuples) = 0 /\ b.subresource = ""
          /\ Len(b.resources) > 1) => Err(r) = SingleTypeError /\ r.lookups = <<>>
    /\ (pc = "result" /\ r.branch = "name" /\ Len(b.resources) > 1) =>
           Err(r) = <<"you must specify only one resource">> /\ r.lookups = <<>>

C18_Witness ==
    /\ pc = "result"
    /\ b.singleResourceType
    /\ r.branch = "resource"
    /\ r.lookups = <<"pods", "nodes">>
    /\ Err(r) = SingleTypeError

\* Do() was called on a Builder that holds bulk types and nothing else
OnlyTypes ==
    /\ pc = "result"
    /\ b.errs = <<>>
    /\ b.paths = <<>>
    /\ b.labelSelector = Nil /\ b.fieldSelector = Nil /\ ~b.selectAll
    /\ b.resourceTuples = <<>>
    /\ b.names = <<>>
    /\ b.resources # <<>>

\* the bulk types that do not resolve
Unresolved == {i \in 1..Len(b.resources) : mappingFor(b, b.resources[i]).err # Nil}

FirstUnresolved == CHOOSE i \in Unresolved : \A j \in Unresolved : i <= j

\* C19: a Do() on a Builder that holds only bulk types fails, with no
\* visitor and no client asked for: the types are resolved in order up to
\* the first that does not resolve, whose error is returned; when all
\* resolve the error is "resource(s) were provided, but no name was
\* specified".
C19_TypesAloneAlwaysFail ==
    OnlyTypes =>
        /\ r.branch = "types"
        /\ r.visitor = NoVisitor
        /\ r.clients = 0
        /\ IF Unresolved = {}
           THEN /\ r.lookups = b.resources
                /\ Err(r) = <<"resource(s) were provided, but no name was specified">>
           ELSE /\ r.lookups = SubSeq(b.resources, 1, FirstUnresolved)
                /\ Err(r) = <<mappingFor(b, b.resources[FirstUnresolved]).err>>

C19_Witness ==
    /\ OnlyTypes
    /\ b.resources = <<"pods", "po", "bogus">>
    /\ r.lookups = <<"pods", "po", "bogus">>
    /\ Err(r) = <<"the server doesn't have a resource type">>

\* every source of the Result can report a mapping, and the mappings
\* reported name exactly one resource
OneMapping ==
    /\ \A i \in 1..Len(r.sources) : HasResourceMapping(r.sources[i])
    /\ Cardinality({r.sources[i].res : i \in 1..Len(r.sources)}) = 1

\* ResourceMapping() has returned a mapping and no error
MappingReturned == ret.err = NoErr /\ ret.via # ""

-----------------------------------------------------------------------------
(* Watch *)

\* the Result has one source, and the source can be watched itself
OneWatchableSource == Len(r.sources) = 1 /\ Watchable(r.sources[1])

\* the Result has one source, and the source cannot be watched itself
OneOtherSource == Len(r.sources) = 1 /\ ~Watchable(r.sources[1])

\* Watch() returned the watch of the one Info the memoized list holds
WatchOfTheInfo ==
    /\ ret.via = "info"
    /\ ret.err = NoErr
    /\ ~r.info.nil
    /\ Len(r.info.items) = 1
    /\ ret.items = r.info.items

-----------------------------------------------------------------------------
(* Err *)

\* C22: Err() returns only the errors that occurred before the visitor's
\* elements were visited: whatever Visit(), Infos(), Object() and Watch()
\* calls were made on the Result, Err() returns what it returned when Do()
\* returned the Result.
C22_ErrUnchangedByCalls ==
    (pc = "result" /\ ~t.active) => Err(r) = hist.doErr

-----------------------------------------------------------------------------
(* IgnoreErrors *)

\* the errors of err that no matcher given to IgnoreErrors accepts, in order
Remaining(err) == SelectSeq(err, LAMBDA e : e \notin r.ignoreErrors)

\* C23: the error Visit() and Infos() return for a traversal is the error of
\* the traversal without the errors a matcher given to IgnoreErrors accepts,
\* and nil when none remains; an error that occurred while the Result was
\* created is returned as it is, whatever the matchers accept.
C23_IgnoredErrorsAreRemoved ==
    (Returned("Visit") \/ Returned("Infos")) =>
        /\ hist.traversed =>
               /\ ret.err = Remaining(hist.travErr)
               /\ \A k \in 1..Len(ret.err) : ret.err[k] \notin r.ignoreErrors
               /\ (\A k \in 1..Len(hist.travErr) : hist.travErr[k] \in r.ignoreErrors) =>
                      ret.err = NoErr
        /\ hist.doErr # NoErr => ret.err = hist.doErr /\ ~hist.traversed

C23_Witness ==
    /\ Returned("Infos")
    /\ hist.traversed
    /\ hist.travErr = <<DecodeError("bad.yaml")>>
    /\ DecodeError("bad.yaml") \in r.ignoreErrors
    /\ ret.err = NoErr
    /\ Len(ret.items) > 0

-----------------------------------------------------------------------------
(* AllNamespaces and NamespaceParam *)

\* the namespaces a caller gives NamespaceParam
GivenNamespaces == {"ns-a", "ns-b"}

\* C24 (as stated): once AllNamespaces(true) was called the Builder's
\* namespace is the all-namespaces value, whether NamespaceParam() was called
\* before it or after it.
C24_AllNamespacesWinsInAnyOrder ==
    b.allNamespace => b.namespace = NamespaceAll

\* C24 (amended): AllNamespaces(true) replaces the namespace an earlier
\* NamespaceParam() set by the all-namespaces value; a NamespaceParam() called
\* after it replaces the all-namespaces value by its argument, the request for
\* all namespaces staying recorded; AllNamespaces(false) leaves the namespace
\* as it is.  Neither call changes anything else.
C24_LastNamespaceCallWins ==
    \A ns \in GivenNamespaces :
        /\ AllNamespaces(NamespaceParam(b, ns), TRUE) =
               [b EXCEPT !.namespace = NamespaceAll, !.allNamespace = TRUE]
        /\ NamespaceParam(AllNamespaces(b, TRUE), ns) =
               [b EXCEPT !.namespace = ns, !.allNamespace = TRUE]
        /\ AllNamespaces(NamespaceParam(b, ns), FALSE) =
               [b EXCEPT !.namespace = ns, !.allNamespace = FALSE]

C24_Witness ==
    /\ pc = "result"
    /\ b.allNamespace
    /\ b.namespace = "ns-a"
    /\ Err(r) = NoErr
    /\ Len(r.sources) = 1
    /\ r.sources[1].kind = "info"
    /\ r.sources[1].ns = "ns-a"

-----------------------------------------------------------------------------
(* The warning writer *)

\* the number of times the message was printed
Occurrences(message, out) ==
    Cardinality({k \in 1..Len(out) : out[k].message = message})

\* a header HandleWarningHeader prints: a 299 warning with a text
Printable(h) == h.code = 299 /\ h.message # ""

\* C25: for a warning writer with Deduplicate on, under any interleaving of
\* concurrent HandleWarningHeader calls, no message is printed twice, the
\* message of every call that returned is printed exactly once unless its
\* header was not a 299 warning or had no text, nothing is printed that was
\* not given as a 299 warning with a text, and WarningCount() returns the
\* number of warnings printed.
C25_EachWarningOnceAndCounted ==
    w.opts.Deduplicate =>
        /\ \A k \in 1..Len(w.out) :
               /\ Occurrences(w.out[k].message, w.out) = 1
               /\ \E g \in 1..Len(w.given) :
                      Printable(w.given[g]) /\ w.given[g].message = w.out[k].message
        /\ \A k \in 1..Len(w.handled) : Occurrences(w.handled[k], w.out) = 1
        /\ \A g \in 1..Len(w.given) :
               (\A p \in Handlers : w.at[p] = "idle") =>
                   Occurrences(w.given[g].message, w.out) =
                       IF \E j \in 1..Len(w.given) :
                              Printable(w.given[j]) /\ w.given[j].message = w.given[g].message
                       THEN 1 ELSE 0
        /\ w.writtenLock = 0 => w.writtenCount = Len(w.out)
        /\ w.count.returned = w.count.written

C25_Witness ==
    /\ w.opts.Deduplicate
    /\ Len(w.given) = 3
    /\ \A p \in Handlers : w.at[p] = "idle"
    /\ Len(w.handled) = 3
    /\ Occurrences("a", w.out) = 1
    /\ Cardinality({k \in 1..Len(w.handled) : w.handled[k] = "a"}) = 2
    /\ Len(w.out) = 2
    /\ w.count.returned = 2

-----------------------------------------------------------------------------
(* The command headers *)

\* the name of each command, read off its Use line
NameOf(cmd) ==
    CASE cmd = "root"    -> "kubectl"
      [] cmd = "create"  -> "create"
      [] cmd = "secret"  -> "secret"
      [] cmd = "generic" -> "generic"
      [] cmd = "version" -> "version"
      [] OTHER           -> ""

\* the commands from the root down to cmd
RECURSIVE FromRoot(_)
FromRoot(cmd) ==
    IF Parent(cmd) = Nil THEN <<cmd>> ELSE Append(FromRoot(Parent(cmd)), cmd)

\* the names of the commands, each but the first after one space, as one text
RECURSIVE Spaced(_)
Spaced(cmds) ==
    IF cmds = <<>> THEN ""
    ELSE IF Len(cmds) = 1 THEN NameOf(cmds[1])
    ELSE Spaced(SubSeq(cmds, 1, Len(cmds) - 1)) \o " " \o NameOf(cmds[Len(cmds)])

\* C26: after a ParseCommandHeaders call with a command, Headers holds the
\* session header, with the identifier the call drew, and the command header,
\* with the names of the commands from the root down to the command given,
\* joined by single spaces, and nothing else, whatever it held before; after a
\* call with no command it holds what it held before.
C26_HeadersOverwritten ==
    crt.parses > 0 =>
        IF crt.cmd = Nil THEN crt.Headers = crt.before
        ELSE /\ DOMAIN crt.Headers = {"Kubectl-Session", "Kubectl-Command"}
             /\ crt.Headers["Kubectl-Session"] = crt.uid
             /\ Str(crt.Headers["Kubectl-Command"]) = Spaced(FromRoot(crt.cmd))

C26_Witness ==
    /\ crt.parses = 2
    /\ crt.cmd = "generic"
    /\ DOMAIN crt.before = {"Kubectl-Session", "Kubectl-Command"}
    /\ crt.before["Kubectl-Session"] # crt.uid
    /\ Str(crt.before["Kubectl-Command"]) = "kubectl version"
    /\ Str(crt.Headers["Kubectl-Command"]) = "kubectl create secret generic"
    /\ crt.Headers["Kubectl-Session"] = crt.uid

-----------------------------------------------------------------------------
(* The branch Do() takes *)

\* the branch the configuration calls for, by the first match
FirstMatch ==
    IF b.paths # <<>> THEN "paths"
    ELSE IF HasSelector THEN "selector"
    ELSE IF b.resourceTuples # <<>> THEN "resource"
    ELSE IF b.names # <<>> THEN "name"
    ELSE IF b.resources # <<>> THEN "types"
    ELSE "missing"

\* C27: when no configuration error is recorded, the Result of Do() is built
\* by the first branch that matches, in the order: a path or stream source,
\* path-based; a label selector, field selector or select-all, selector-based;
\* type/name pairs, tuple-based; bare names, name-based; bulk types alone, an
\* error; nothing, the missing-resource error.
C27_FirstMatchingBranch ==
    (pc = "result" /\ b.errs = <<>>) =>
        /\ r.branch = FirstMatch
        /\ r.branch \in {"types", "missing"} =>
               Err(r) # NoErr /\ r.visitor = NoVisitor /\ r.sources = <<>>
        /\ r.branch = "missing" => Err(r) = <<missingResourceError>>
        /\ Err(r) = NoErr =>
               /\ r.branch = "paths" => r.sources = b.paths
               /\ r.branch = "selector" =>
                      \A i \in 1..Len(r.sources) : r.sources[i].kind = "selector"
               /\ r.branch \in {"resource", "name"} =>
                      \A i \in 1..Len(r.sources) : r.sources[i].kind = "info"
               /\ r.branch = "resource" => Len(r.sources) = Len(b.resourceTuples)
               /\ r.branch = "name" => Len(r.sources) = Len(b.names)

C27_Witness ==
    /\ pc = "result"
    /\ b.errs = <<>>
    /\ b.paths # <<>>
    /\ b.labelSelector # Nil
    /\ r.branch = "paths"
    /\ Err(r) = NoErr
    /\ r.sources = b.paths

-----------------------------------------------------------------------------
(* The layers Do() puts around the visitor of the branch *)

\* the layers of the Result's visitor, innermost first, without the layers
\* the branch itself built
LayersOfDo ==
    SubSeq(r.visitor.layers, Len(visitorResult(b).r.visitor.layers) + 1,
           Len(r.visitor.layers))

\* the hooks that were asked for, in the order of the pipeline
HooksAskedFor ==
    SelectSeq(<<Hook("SetNamespace", b.namespace), Hook("RequireNamespace", b.namespace),
                Hook("FilterNamespace", ""), Hook("RetrieveLazy", "")>>,
              LAMBDA h : \/ h.fn = "SetNamespace" /\ b.defaultNamespace
                         \/ h.fn = "RequireNamespace" /\ b.requireNamespace
                         \/ h.fn = "FilterNamespace"
                         \/ h.fn = "RetrieveLazy" /\ b.requireObject)

\* the kinds of the layers, innermost first
Kinds(layers) == [k \in 1..Len(layers) |-> layers[k].kind]

DoSucceeded == pc = "result" /\ Err(r) = NoErr

\* C28 (as stated): the layers Do() adds are, each around the ones before it,
\* the flattening if requested, the hooks in the order default-namespace,
\* require-namespace, namespace-filter, lazy-retrieval, and last, around the
\* decorated visitor, the continue-on-error wrapper if requested.
C28_ContinueOnErrorWrapsLast ==
    DoSucceeded =>
        /\ IsPrefix(visitorResult(b).r.visitor.layers, r.visitor.layers)
        /\ Kinds(LayersOfDo) =
               (IF b.flatten THEN <<"flatten">> ELSE <<>>)
               \o <<"decorated">>
               \o (IF b.continueOnError THEN <<"continueOnError">> ELSE <<>>)
        /\ \A k \in 1..Len(LayersOfDo) :
               LayersOfDo[k].kind = "decorated" => LayersOfDo[k].hooks = HooksAskedFor

\* C28 (amended): the layers Do() adds are, each around the ones before it,
\* the flattening if requested, the continue-on-error wrapper if requested,
\* and last, always, one decorated visitor that runs the hooks in the order
\* default-namespace, require-namespace, namespace-filter, lazy-retrieval,
\* the namespace-filter always and the others if requested.
C28_DecoratedWrapsLast ==
    DoSucceeded =>
        /\ IsPrefix(visitorResult(b).r.visitor.layers, r.visitor.layers)
        /\ Kinds(LayersOfDo) =
               (IF b.flatten THEN <<"flatten">> ELSE <<>>)
               \o (IF b.continueOnError THEN <<"continueOnError">> ELSE <<>>)
               \o <<"decorated">>
        /\ LayersOfDo[Len(LayersOfDo)].hooks = HooksAskedFor
        /\ InSeq(Hook("FilterNamespace", ""), LayersOfDo[Len(LayersOfDo)].hooks)

C28_Witness ==
    /\ DoSucceeded
    /\ b.flatten
    /\ b.continueOnError
    /\ Kinds(LayersOfDo) = <<"flatten", "continueOnError", "decorated">>
    /\ Len(LayersOfDo[3].hooks) >= 2

-----------------------------------------------------------------------------
(* The root list of the visitor *)

\* Do() built a visitor in one of the four branches
BranchBuilt == DoSucceeded /\ r.branch \in {"paths", "selector", "resource", "name"}

\* a traversal of the Result's visitor visits every child
VisitsEveryChild ==
    VisitAll(r.visitor, stdinPos, 0).visited = UpTo(Len(r.visitor.children))

\* C29 (as stated): whenever ContinueOnError() was requested, the root list
\* the selected branch builds is the eager list, which visits every child
\* whatever error a child gives.
C29_EagerRootInEveryBranch ==
    (BranchBuilt /\ b.continueOnError) =>
        r.visitor.root = "eager" /\ VisitsEveryChild

\* C29 (amended): whenever ContinueOnError() was requested, the root list the
\* path, selector and tuple branches build is the eager list; the name branch
\* builds the plain list whether it was requested or not.  In all four
\* branches a traversal then visits every child whatever error a child gives.
\* Without ContinueOnError() the path branch builds the concurrent list and
\* the others the plain list.
C29_EagerRootButInNameBranch ==
    BranchBuilt =>
        /\ r.visitor.children = r.sources
        /\ r.visitor.root =
               IF r.branch = "name" THEN "list"
               ELSE IF b.continueOnError THEN "eager"
               ELSE IF r.branch = "paths" THEN "concurrent"
               ELSE "list"
        /\ b.continueOnError => VisitsEveryChild

C29_Witness ==
    /\ BranchBuilt
    /\ b.continueOnError
    /\ r.branch = "paths"
    /\ r.visitor.root = "eager"
    /\ Len(r.visitor.children) = 3
    /\ FileContent(r.visitor.children[1].name).bad
    /\ VisitAll(r.visitor, stdinPos, 0).visited = <<1, 2, 3>>

-----------------------------------------------------------------------------
(* The two flags of a Result *)

\* Do() returned the Result of one of the four branches, with or without error
Produced == pc = "result" /\ r.branch \in {"paths", "selector", "resource", "name"}

\* a flag of the Result is what the branch that produced it should give
FlagsAre(targets, single) ==
    /\ r.targetsSingleItems = targets
    /\ r.singleItemImplied = single

\* the Builder was given one path, which is a file that was named itself:
\* not standard input, a directory, a pattern or a recursive walk
OnePlainPath ==
    /\ Len(b.paths) = 1
    /\ b.paths[1].kind = "file"
    /\ ~hist.dirExpanded
    /\ hist.how = {}

\* C30: targetsSingleItems is true for every Result of the path,
\* tuple or name branch and false for the selector branch; singleItemImplied
\* is true exactly for a single non-recursive, non-glob path that is not a
\* directory or standard input, a single bare name, or a single tuple.
C30_SingleOnlyForPlainPath ==
    Produced =>
        CASE r.branch = "paths"    -> FlagsAre(TRUE, OnePlainPath)
          [] r.branch = "resource" -> FlagsAre(TRUE, Len(b.resourceTuples) = 1)
          [] r.branch = "name"     -> FlagsAre(TRUE, Len(b.names) = 1)
          [] r.branch = "selector" -> FlagsAre(FALSE, FALSE)

-----------------------------------------------------------------------------
(* The namespace of the Infos built by name *)

\* Do() returned the Result of the name or the tuple branch
ByNameOrTuple == pc = "result" /\ r.branch \in {"name", "resource"}

\* the types Do() was asked to retrieve by name: the type of each tuple, or
\* the one type the names belong to
TypesByName ==
    IF r.branch = "resource"
    THEN {b.resourceTuples[i].Resource : i \in 1..Len(b.resourceTuples)}
    ELSE {b.resources[i] : i \in 1..Len(b.resources)}

NamespaceErrors ==
    {"a resource cannot be retrieved by name across all namespaces",
     "namespace may not be empty when retrieving a resource by name"}

\* C31: in the name and tuple branches every Info built has an empty
\* namespace exactly when its mapping is cluster-scoped, a namespaced one
\* having the configured namespace; with a namespaced mapping and an empty
\* configured namespace Do() fails, with the across-all-namespaces message
\* when AllNamespaces(true) was set, and no Info is produced.
C31_NamespaceEmptyIffClusterScoped ==
    ByNameOrTuple =>
        /\ \A i \in 1..Len(r.sources) :
               /\ r.sources[i].kind = "info"
               /\ r.sources[i].ns = "" <=> ~r.sources[i].namespaced
               /\ r.sources[i].namespaced => r.sources[i].ns = b.namespace
               /\ r.sources[i].namespaced = Mapping(r.sources[i].res).namespaced
        /\ Err(r) # NoErr => r.sources = <<>> /\ r.visitor = NoVisitor
        /\ (b.namespace = "" /\ \E token \in TypesByName : Mapping(token).namespaced) =>
               /\ Err(r) # NoErr
               /\ \A e \in NamespaceErrors :
                      InSeq(e, Err(r)) =>
                          (b.allNamespace <=>
                              e = "a resource cannot be retrieved by name across all namespaces")

C31_Witness ==
    /\ ByNameOrTuple
    /\ b.namespace = "ns-a"
    /\ Err(r) = NoErr
    /\ Len(r.sources) = 2
    /\ r.sources[1].namespaced /\ r.sources[1].ns = "ns-a"
    /\ ~r.sources[2].namespaced /\ r.sources[2].ns = ""

-----------------------------------------------------------------------------
(* The cached category expander *)

\* C32: under any interleaving of concurrent ToCategoryExpander calls on one
\* caching wrapper the cache is written at most once, the delegate is never
\* called again after the first call of it that succeeded, and every call
\* that returns without error returns the same, cached, expander.
C32_CachedAtMostOnce ==
    /\ ce.stored <= 1
    /\ ce.succeeded <= 1
    /\ ce.late = 0
    /\ \A i \in 1..Len(ce.returned) :
           ce.returned[i].err = NoErr =>
               /\ ce.returned[i].expander # 0
               /\ ce.returned[i].expander = ce.cached
    /\ \A i \in 1..Len(ce.returned) :
           ce.returned[i].err # NoErr => ce.returned[i].expander = 0

C32_Witness ==
    /\ ce.delegated = 2
    /\ ce.succeeded = 1
    /\ ce.cached = 2
    /\ Len(ce.returned) = 3
    /\ ce.returned[1].err = ToDiscoveryClientFailed
    /\ ce.returned[2] = [expander |-> 2, err |-> NoErr]
    /\ ce.returned[3] = [expander |-> 2, err |-> NoErr]

-----------------------------------------------------------------------------
(* Visit and the memoized list *)

\* C33: Visit never fills the memoized list and never changes the stored
\* error: as long as no Infos(), Object() or Watch() has started a traversal
\* the list is empty and the stored error is the one Do() left, whatever
\* Visit() calls were made, complete or aborted; and an Infos() that has
\* returned on a Result Do() built without error found a traversal made for
\* it, the traversal it makes itself after Visit() calls alone.
C33_VisitNeverMemoizes ==
    /\ (pc = "result" /\ hist.infoVisits = 0) =>
           /\ r.info.nil
           /\ Err(r) = hist.doErr
    /\ (Returned("Infos") /\ hist.doErr = NoErr) =>
           /\ hist.infoVisits = 1
           /\ ~r.info.nil
    /\ (Returned("Infos") /\ hist.doErr = NoErr /\ hist.prev.op = "Visit"
            /\ hist.visits = ops) =>
           hist.traversed

C33_Witness ==
    /\ Returned("Infos")
    /\ hist.prev.op = "Visit"
    /\ hist.prev.err = <<"callback error">>
    /\ hist.visits = 2
    /\ hist.infoVisits = 1
    /\ hist.traversed
    /\ Len(ret.items) = 2
    /\ ret.err = NoErr

-----------------------------------------------------------------------------
(* The search for a plugin *)

\* the names HandlePluginCommand may look up for its arguments, the longest
\* first: the arguments before the first flag with their dashes replaced,
\* joined by a dash, then the same without the last one, and so on
RECURSIVE Candidates(_)
Candidates(args) ==
    IF args = <<>> THEN <<>>
    ELSE <<Join(args, "-")>> \o Candidates(SubSeq(args, 1, Len(args) - 1))

LeadingArgs == NonFlagArgs(pl.cmdArgs, <<>>)

\* the plugin is on the PATH under the name
OnPath(name) == (<<"kubectl", "-">> \o name) \in pl.onPath

\* the candidates up to the first that is on the PATH, or all of them; the
\* first alone with exactMatch
Expected ==
    LET c == Candidates(LeadingArgs)
        hits == {i \in 1..Len(c) : OnPath(c[i])}
        first == CHOOSE i \in hits : \A j \in hits : i <= j
    IN  IF pl.exactMatch THEN SubSeq(c, 1, 1)
        ELSE IF hits = {} THEN c
        ELSE SubSeq(c, 1, first)

\* the call is past its loop
Searched == pl.at \in {"after", "done"} /\ LeadingArgs # <<>>

\* the lookups, the execution and the arguments handed to the plugin are
\* those the search from the longest name down gives
SearchIsLongestFirst ==
    /\ pl.at = "loop" =>
           /\ IsPrefix(pl.looked, Candidates(LeadingArgs))
           /\ Len(pl.looked) + Len(pl.remainingArgs) = Len(LeadingArgs)
    /\ Searched =>
           /\ pl.looked = Expected
           /\ Len(pl.foundBinaryPath) # 0 <=> OnPath(pl.looked[Len(pl.looked)])
    /\ Len(pl.executed) <= 1
    /\ (pl.at = "done" /\ LeadingArgs # <<>>) =>
           IF OnPath(pl.looked[Len(pl.looked)])
           THEN /\ Len(pl.executed) = 1
                /\ pl.executed[1].executablePath
                       = <<"/bin/", "kubectl", "-">> \o pl.looked[Len(pl.looked)]
                /\ pl.executed[1].cmdArgs
                       = SubSeq(pl.cmdArgs,
                                Len(LeadingArgs) - Len(pl.looked) + 2, Len(pl.cmdArgs))
                /\ pl.replaced \/ (pl.returned /\ pl.err # NoErr)
           ELSE /\ pl.executed = <<>>
                /\ pl.returned /\ pl.err = NoErr

\* C34 (as stated): the names are looked up from the longest down until one
\* is found or none remains, the longest alone with exactMatch; the first
\* plugin found is executed at most once with the arguments after the
\* matched ones; if no plugin is found the call returns nil and executes
\* nothing; the loop ends.
C34_NilWheneverNothingFound ==
    /\ []SearchIsLongestFirst
    /\ [](pl.at = "done" /\ pl.executed = <<>> => pl.returned /\ pl.err = NoErr)
    /\ (pl.at = "loop" ~> pl.at = "done")

\* C34 (amended): as stated, except that a call whose first argument is a
\* flag returns an error without looking anything up: the call returns nil
\* without executing anything if it looked up at least one name and found
\* no plugin.
C34_NilWhenLookedUpAndNothingFound ==
    /\ []SearchIsLongestFirst
    /\ [](pl.at = "done" /\ pl.executed = <<>> =>
              /\ pl.returned
              /\ IF LeadingArgs = <<>>
                 THEN /\ pl.err = <<"flags cannot be placed before plugin name">>
                      /\ pl.looked = <<>>
                 ELSE pl.err = NoErr)
    /\ (pl.at = "loop" ~> pl.at = "done")

C34_Witness ==
    /\ pl.at = "done"
    /\ ~pl.exactMatch
    /\ pl.cmdArgs = <<<<"foo">>, <<"my", "-", "plugin">>, <<"-", "v">>>>
    /\ pl.looked = <<<<"foo", "-", "my", "_", "plugin">>, <<"foo">>>>
    /\ pl.executed = <<[executablePath |-> <<"/bin/", "kubectl", "-", "foo">>,
                        cmdArgs |-> <<<<"my", "-", "plugin">>, <<"-", "v">>>>]>>
    /\ pl.replaced

\* C35: however the calls of ToRESTConfig, ToDiscoveryClient and ToRESTMapper
\* on one MatchVersionFlags interleave, the function that checks the server
\* version runs at most once and every call sees the outcome it stored,
\* also a call made after the flag was given another value; a call that
\* sees an error returns it and does not call the method of the delegate.
C35_CheckedOnceForAll ==
    /\ mv.bodies <= 1
    /\ \A i \in 1..Len(mv.returned) :
           /\ mv.bodies = 1
           /\ mv.returned[i].checked = mv.matchesServerVersionErr
           /\ mv.returned[i].checked # NoErr =>
                  /\ ~mv.returned[i].delegated
                  /\ mv.returned[i].err = mv.returned[i].checked

\* a second call returned the error of the check although the flag was
\* taken back after the check
C35_Witness ==
    /\ Len(mv.returned) >= 2
    /\ mv.matchesServerVersionErr # NoErr
    /\ ~mv.RequireMatchedServerVersion
    /\ mv.returned[1].method # mv.returned[2].method
    /\ \A i \in 1..2 : ~mv.returned[i].delegated

Selection(bb) == <<bb.mapper, bb.objectTyper, bb.negotiatedSerializer>>

\* what the first selection leaves on the Builder
Selected ==
    IF "unstructured first" \in hist.how THEN <<"unstructured", "unstructured", "nil">>
    ELSE IF "scheme first" \in hist.how THEN <<"scheme", "scheme", "codecs">>
    ELSE IF "scheme v1 first" \in hist.how THEN <<"scheme", "scheme", "without conversion">>
    ELSE <<"nil", "nil", "nil">>

Selects == {"unstructured", "scheme", "scheme v1"}

SelectedAgain == {s \in Selects : (s \o " again") \in hist.how}

Occurs(errs, err) == \E i \in 1..Len(errs) : errs[i] = err

\* C36: at most one selection of the mapper takes effect on a Builder: a
\* call of Unstructured() or WithScheme() made after another, in any
\* combination, records its error and leaves alone the mapper, the object
\* typer and the negotiated serializer that the first call chose.
C36_OneMapperSelection ==
    /\ Cardinality({s \in Selects : (s \o " first") \in hist.how}) <= 1
    /\ Selection(b) = Selected
    /\ SelectedAgain # {} => b.mapper # "nil"
    /\ "unstructured" \in SelectedAgain =>
           Occurs(b.errs, "another mapper was already selected, cannot use unstructured types")
    /\ SelectedAgain \cap {"scheme", "scheme v1"} # {} =>
           Occurs(b.errs, "another mapper was already selected, cannot use internal types")

\* every selection was made again after a WithScheme with versions chose
\* the serializer without conversion
C36_Witness ==
    /\ "scheme v1 first" \in hist.how
    /\ SelectedAgain = Selects
    /\ Len(b.errs) = 3
    /\ Selection(b) = <<"scheme", "scheme", "without conversion">>

\* what the claim lets a token become: its expansion when the expander
\* works and knows it as a category, else itself
RECURSIVE Replaced(_, _)
Replaced(tokens, categoryExpander) ==
    IF tokens = <<>> THEN <<>>
    ELSE (IF categoryExpander = "ok" /\ Expand(Head(tokens)).ok
          THEN Expand(Head(tokens)).resources
          ELSE <<Head(tokens)>>)
         \o Replaced(Tail(tokens), categoryExpander)

\* C37: ReplaceAliases returns every token of its input that is not an
\* expandable category unchanged and in its place; a token is replaced by
\* its expansion or kept, never dropped, also when the Builder has no
\* category expander or the expander function fails.
C37_TokensNeverDropped ==
    ret.op = "ReplaceAliases" =>
        Split(ret.items[2], ",") = Replaced(Split(ret.items[1], ","), b.categoryExpanderFn)

SelectAllError == "setting 'all' parameter but found a non empty selector"

\* C38: SelectAllParam(true) records its error only when a label or field
\* selector with text in it was set before; after ResourceTypeOrNameArgs
\* with allowEmptySelector and one type stored the selector of everything,
\* SelectAllParam(true) records no error.
C38_SelectAllErrorOnlyAfterSelectorText ==
    Occurs(b.errs, SelectAllError) =>
        \/ b.labelSelector \notin {Nil, ""}
        \/ b.fieldSelector \notin {Nil, ""}

\* C39: Do() returns a Result, which carries a visitor or an error, after
\* every sequence of configuration calls, also one in which neither
\* Unstructured() nor WithScheme() was called and b.mapper was never set.
C39_DoAlwaysReturnsAResult ==
    /\ pc # "panic"
    /\ hist.dos > 0 =>
           /\ pc = "result"
           /\ r.err # NoErr \/ r.visitor # NoVisitor

====
